---- MODULE Spec2Model ----
(***************************************************************************)
(* Frame extraction planning, validation and orchestration of VideoSpliter *)
(* (apps/mobile/src/domain): the request validators, the plan builder, the *)
(* FrameExtractionService and the video processing adapters it drives.     *)
(*                                                                         *)
(* JavaScript numbers are modelled as exact rationals n/d in lowest terms  *)
(* plus the three non-finite values and undefined; IEEE rounding of the    *)
(* last bit is not modelled.                                               *)
(***************************************************************************)
EXTENDS Integers, Sequences, FiniteSets, TLC

\* ------------------------------------------------------------------------
\* JavaScript number values
\* ------------------------------------------------------------------------

RECURSIVE Gcd(_, _)
Gcd(a, b) == IF b = 0 THEN a ELSE Gcd(b, a % b)

Abs(x) == IF x < 0 THEN -x ELSE x

\* A finite number n/d (d > 0) in lowest terms.
Fin(n, d) ==
    LET g == Gcd(Abs(n), d)
    IN  [k |-> "fin", n |-> n \div g, d |-> d \div g]

Num(n) == [k |-> "fin", n |-> n, d |-> 1]

NaN == [k |-> "nan", n |-> 0, d |-> 1]

PosInfinity == [k |-> "inf", n |-> 1, d |-> 1]

NegInfinity == [k |-> "inf", n |-> -1, d |-> 1]

Undefined == [k |-> "undef", n |-> 0, d |-> 1]

\* Number.isFinite
IsFinite(x) == x.k = "fin"

\* Number.isInteger
IsInteger(x) == x.k = "fin" /\ x.d = 1

Sign(x) == IF x.n > 0 THEN 1 ELSE IF x.n < 0 THEN -1 ELSE 0

\* x < y ; every comparison with NaN (or undefined, which converts to NaN)
\* is false. Finite numbers are compared over their common denominator.
Lt(x, y) ==
    IF x.k \in {"nan", "undef"} \/ y.k \in {"nan", "undef"} THEN FALSE
    ELSE IF x.k = "inf" THEN x.n < 0 /\ ~(y.k = "inf" /\ y.n < 0)
    ELSE IF y.k = "inf" THEN y.n > 0
    ELSE LET g == Gcd(x.d, y.d)
         IN  x.n * (y.d \div g) < y.n * (x.d \div g)

Gt(x, y) == Lt(y, x)

\* x <= y
Le(x, y) ==
    IF x.k \in {"nan", "undef"} \/ y.k \in {"nan", "undef"} THEN FALSE
    ELSE x = y \/ Lt(x, y)

\* x * y ; the factors are cancelled crosswise before they are multiplied.
Mul(x, y) ==
    IF x.k \in {"nan", "undef"} \/ y.k \in {"nan", "undef"} THEN NaN
    ELSE IF x.k = "inf" \/ y.k = "inf"
         THEN IF Sign(x) * Sign(y) = 0 THEN NaN
              ELSE IF Sign(x) * Sign(y) > 0 THEN PosInfinity ELSE NegInfinity
    ELSE LET g1 == Gcd(Abs(x.n), y.d)
             g2 == Gcd(Abs(y.n), x.d)
         IN  [k |-> "fin",
              n |-> (x.n \div g1) * (y.n \div g2),
              d |-> (x.d \div g2) * (y.d \div g1)]

\* x / y
Div(x, y) ==
    IF x.k \in {"nan", "undef"} \/ y.k \in {"nan", "undef"} THEN NaN
    ELSE IF y.k = "inf"
         THEN IF x.k = "inf" THEN NaN ELSE Num(0)
    ELSE IF y.n = 0
         THEN IF x.k = "fin" /\ x.n = 0 THEN NaN
              ELSE IF Sign(x) > 0 THEN PosInfinity ELSE NegInfinity
    ELSE IF x.k = "inf"
         THEN IF Sign(x) * Sign(y) > 0 THEN PosInfinity ELSE NegInfinity
    ELSE Mul(x, [k |-> "fin",
                 n |-> IF y.n < 0 THEN -y.d ELSE y.d,
                 d |-> Abs(y.n)])

\* Math.floor on a finite number
FloorInt(x) == x.n \div x.d

\* Math.round: the nearest integer, halves rounded towards +Infinity;
\* non-finite values are returned as they are.
Round(x) ==
    IF x.k = "undef" THEN NaN
    ELSE IF x.k # "fin" THEN x
    ELSE Num((2 * x.n + x.d) \div (2 * x.d))

\* Math.min and Math.max: NaN if either argument is NaN.
MathMin(x, y) ==
    IF x.k \in {"nan", "undef"} \/ y.k \in {"nan", "undef"} THEN NaN
    ELSE IF Lt(y, x) THEN y ELSE x

MathMax(x, y) ==
    IF x.k \in {"nan", "undef"} \/ y.k \in {"nan", "undef"} THEN NaN
    ELSE IF Gt(y, x) THEN y ELSE x

\* The outcome of a function that may throw: a returned value or a thrown
\* Error with its message.
Ok(v) == [ok |-> TRUE, v |-> v]

Throw(message) == [ok |-> FALSE, message |-> message]

\* ------------------------------------------------------------------------
\* JavaScript string values (a string is its sequence of characters)
\* ------------------------------------------------------------------------

Str(chars) == [t |-> "string", chars |-> chars]

NotAString == [t |-> "undefined", chars |-> <<>>]

WhiteSpace == {" ", "\t", "\n"}

RECURSIVE TrimStart(_)
TrimStart(s) ==
    IF s = <<>> THEN <<>>
    ELSE IF Head(s) \in WhiteSpace THEN TrimStart(Tail(s)) ELSE s

RECURSIVE TrimEnd(_)
TrimEnd(s) ==
    IF s = <<>> THEN <<>>
    ELSE IF s[Len(s)] \in WhiteSpace THEN TrimEnd(SubSeq(s, 1, Len(s) - 1)) ELSE s

\* String.prototype.trim
Trim(s) == TrimEnd(TrimStart(s))

\* ------------------------------------------------------------------------
\* Rule tables
\* ------------------------------------------------------------------------

MIN_FRAME_COUNT == 1

MAX_FRAME_COUNT == 10000

MIN_INTERVAL_SECONDS == Fin(1, 1000)

MAX_INTERVAL_SECONDS == 3600

MIN_FRAME_INTERVAL == 1

MAX_FRAME_INTERVAL == 1000

MIN_FPS == Fin(1, 1000)

MAX_FPS == 120

MIN_QUALITY == 1

MAX_QUALITY == 31

DEFAULT_QUALITY == 2

MAX_ESTIMATED_STORAGE_MB == 5000

\* One structured validation error.
ValidationError(field, message, code) ==
    [field |-> field, message |-> message, code |-> code]

\* ------------------------------------------------------------------------
\* Strategy and parameter validators
\* ------------------------------------------------------------------------

validateUniformSampling(frameCount) ==
    IF ~IsFinite(frameCount) \/ ~IsInteger(frameCount)
    THEN << ValidationError("frameCount", "Frame count must be a valid integer",
                            "INVALID_FRAME_COUNT") >>
    ELSE (IF Lt(frameCount, Num(MIN_FRAME_COUNT))
          THEN << ValidationError("frameCount", "Frame count must be at least 1",
                                  "FRAME_COUNT_TOO_LOW") >>
          ELSE <<>>)
         \o
         (IF Gt(frameCount, Num(MAX_FRAME_COUNT))
          THEN << ValidationError("frameCount", "Frame count cannot exceed 10000",
                                  "FRAME_COUNT_TOO_HIGH") >>
          ELSE <<>>)

validateIntervalBased(intervalSeconds) ==
    IF ~IsFinite(intervalSeconds)
    THEN << ValidationError("intervalSeconds", "Interval must be a valid number",
                            "INVALID_INTERVAL") >>
    ELSE (IF Lt(intervalSeconds, MIN_INTERVAL_SECONDS)
          THEN << ValidationError("intervalSeconds",
                                  "Interval must be at least 0.001 seconds",
                                  "INTERVAL_TOO_LOW") >>
          ELSE <<>>)
         \o
         (IF Gt(intervalSeconds, Num(MAX_INTERVAL_SECONDS))
          THEN << ValidationError("intervalSeconds",
                                  "Interval cannot exceed 3600 seconds",
                                  "INTERVAL_TOO_HIGH") >>
          ELSE <<>>)

validateFrameBased(frameInterval) ==
    IF ~IsFinite(frameInterval) \/ ~IsInteger(frameInterval)
    THEN << ValidationError("frameInterval", "Frame interval must be a valid integer",
                            "INVALID_FRAME_INTERVAL") >>
    ELSE (IF Lt(frameInterval, Num(MIN_FRAME_INTERVAL))
          THEN << ValidationError("frameInterval", "Frame interval must be at least 1",
                                  "FRAME_INTERVAL_TOO_LOW") >>
          ELSE <<>>)
         \o
         (IF Gt(frameInterval, Num(MAX_FRAME_INTERVAL))
          THEN << ValidationError("frameInterval", "Frame interval cannot exceed 1000",
                                  "FRAME_INTERVAL_TOO_HIGH") >>
          ELSE <<>>)

validateAllFrames == <<>>

\* validateCustomFps with an exclusive upper bound.
validateCustomFpsExclusive(fps) ==
    IF ~IsFinite(fps)
    THEN << ValidationError("fps", "FPS must be a valid number", "INVALID_FPS") >>
    ELSE IF Lt(fps, MIN_FPS)
    THEN << ValidationError("fps", "FPS must be at least 0.001", "FPS_TOO_LOW") >>
    ELSE IF ~Lt(fps, Num(MAX_FPS))
    THEN << ValidationError("fps", "FPS cannot exceed 120", "FPS_TOO_HIGH") >>
    ELSE <<>>

validateCustomFps(fps) ==
    IF ~IsFinite(fps)
    THEN << ValidationError("fps", "FPS must be a valid number", "INVALID_FPS") >>
    ELSE (IF Lt(fps, MIN_FPS)
          THEN << ValidationError("fps", "FPS must be at least 0.001", "FPS_TOO_LOW") >>
          ELSE <<>>)
         \o
         (IF Gt(fps, Num(MAX_FPS))
          THEN << ValidationError("fps", "FPS cannot exceed 120", "FPS_TOO_HIGH") >>
          ELSE <<>>)

validateStrategy(strategy) ==
    CASE strategy.type = "uniform" -> validateUniformSampling(strategy.frameCount)
      [] strategy.type = "interval" -> validateIntervalBased(strategy.intervalSeconds)
      [] strategy.type = "frame-based" -> validateFrameBased(strategy.frameInterval)
      [] strategy.type = "all-frames" -> validateAllFrames
      [] strategy.type = "custom-fps" -> validateCustomFps(strategy.fps)
      [] OTHER -> << ValidationError("strategy", "Unknown strategy type",
                                     "UNKNOWN_STRATEGY") >>

validateQuality(quality) ==
    IF ~IsFinite(quality)
    THEN << ValidationError("quality", "Quality must be a valid number",
                            "INVALID_QUALITY") >>
    ELSE IF Lt(quality, Num(MIN_QUALITY)) \/ Gt(quality, Num(MAX_QUALITY))
    THEN << ValidationError("quality", "Quality must be between 1 and 31",
                            "QUALITY_OUT_OF_RANGE") >>
    ELSE <<>>

validateNonEmptyString(value, fieldName) ==
    IF value.t # "string"
    THEN << ValidationError(fieldName,
                            IF fieldName = "videoPath"
                            THEN "videoPath must be a string"
                            ELSE "outputDirectory must be a string",
                            "INVALID_VALUE") >>
    ELSE IF Len(Trim(value.chars)) = 0
    THEN << ValidationError(fieldName,
                            IF fieldName = "videoPath"
                            THEN "videoPath cannot be empty"
                            ELSE "outputDirectory cannot be empty",
                            "EMPTY_PATH") >>
    ELSE <<>>

validateVideoPath(videoPath) == validateNonEmptyString(videoPath, "videoPath")

validateOutputDirectory(outputDirectory) ==
    validateNonEmptyString(outputDirectory, "outputDirectory")

\* ------------------------------------------------------------------------
\* Request validation
\* ------------------------------------------------------------------------

\* A result that reports failure without any error.
createEmptyInvalidResult == [valid |-> FALSE, errors |-> <<>>]

createValidResult == [valid |-> TRUE]

createInvalidResultFromArray(errors) == [valid |-> FALSE, errors |-> errors]

\* validateRequest returning at the first validator that reports an error.
validateRequestShortCircuit(request) ==
    LET pathErrors == validateVideoPath(request.videoPath)
        directoryErrors == validateOutputDirectory(request.outputDirectory)
        strategyErrors == validateStrategy(request.strategy)
        qualityErrors == IF request.quality # Undefined
                         THEN validateQuality(request.quality)
                         ELSE <<>>
    IN  IF Len(pathErrors) > 0 THEN createInvalidResultFromArray(pathErrors)
        ELSE IF Len(directoryErrors) > 0 THEN createInvalidResultFromArray(directoryErrors)
        ELSE IF Len(strategyErrors) > 0 THEN createInvalidResultFromArray(strategyErrors)
        ELSE IF Len(qualityErrors) > 0 THEN createInvalidResultFromArray(qualityErrors)
        ELSE createValidResult

validateRequest(request) ==
    LET errors ==
            validateVideoPath(request.videoPath)
            \o validateOutputDirectory(request.outputDirectory)
            \o validateStrategy(request.strategy)
            \o (IF request.quality # Undefined
                THEN validateQuality(request.quality)
                ELSE <<>>)
    IN  IF Len(errors) = 0
        THEN createValidResult
        ELSE createInvalidResultFromArray(errors)

\* validateStorageEstimate with the quota mistyped as 50000.
validateStorageEstimateLax(estimatedStorageMB) ==
    IF ~IsFinite(estimatedStorageMB) THEN <<>>
    ELSE IF Gt(estimatedStorageMB, Num(50000))
    THEN << ValidationError("estimatedStorageMB", "Estimated storage exceeds limit of 5000MB",
                            "STORAGE_LIMIT_EXCEEDED") >>
    ELSE <<>>

\* validateStorageEstimate rejecting the quota itself as well.
validateStorageEstimateInclusive(estimatedStorageMB) ==
    IF ~IsFinite(estimatedStorageMB) THEN <<>>
    ELSE IF ~Lt(estimatedStorageMB, Num(MAX_ESTIMATED_STORAGE_MB))
    THEN << ValidationError("estimatedStorageMB", "Estimated storage exceeds limit of 5000MB",
                            "STORAGE_LIMIT_EXCEEDED") >>
    ELSE <<>>

validateStorageEstimate(estimatedStorageMB) ==
    IF ~IsFinite(estimatedStorageMB) THEN <<>>
    ELSE IF Gt(estimatedStorageMB, Num(MAX_ESTIMATED_STORAGE_MB))
    THEN << ValidationError("estimatedStorageMB", "Estimated storage exceeds limit of 5000MB",
                            "STORAGE_LIMIT_EXCEEDED") >>
    ELSE <<>>

\* ------------------------------------------------------------------------
\* Video file validator
\* ------------------------------------------------------------------------

UpperCase ==
    << "A", "B", "C", "D", "E", "F", "G", "H", "I", "J", "K", "L", "M",
       "N", "O", "P", "Q", "R", "S", "T", "U", "V", "W", "X", "Y", "Z" >>

LowerCase ==
    << "a", "b", "c", "d", "e", "f", "g", "h", "i", "j", "k", "l", "m",
       "n", "o", "p", "q", "r", "s", "t", "u", "v", "w", "x", "y", "z" >>

\* String.prototype.toLowerCase on a sequence of characters
ToLowerCase(s) ==
    [i \in 1..Len(s) |->
        IF \E k \in 1..26 : UpperCase[k] = s[i]
        THEN LowerCase[CHOOSE k \in 1..26 : UpperCase[k] = s[i]]
        ELSE s[i]]

\* String.prototype.endsWith on sequences of characters
EndsWith(s, suffix) ==
    /\ Len(suffix) <= Len(s)
    /\ SubSeq(s, Len(s) - Len(suffix) + 1, Len(s)) = suffix

SUPPORTED_VIDEO_EXTENSIONS ==
    << << ".", "m", "p", "4" >>, << ".", "m", "o", "v" >>, << ".", "a", "v", "i" >>,
       << ".", "m", "k", "v" >>, << ".", "m", "4", "v" >>, << ".", "3", "g", "p" >>,
       << ".", "w", "e", "b", "m" >>, << ".", "f", "l", "v" >>, << ".", "w", "m", "v" >>,
       << ".", "m", "p", "e", "g" >>, << ".", "m", "p", "g" >> >>

\* A MIME type "video/<subtype>" as its sequence of characters.
VideoMime(subtype) == << "v", "i", "d", "e", "o", "/" >> \o subtype

SUPPORTED_MIME_TYPES ==
    << VideoMime(<< "m", "p", "4" >>),
       VideoMime(<< "q", "u", "i", "c", "k", "t", "i", "m", "e" >>),
       VideoMime(<< "x", "-", "m", "s", "v", "i", "d", "e", "o" >>),
       VideoMime(<< "x", "-", "m", "a", "t", "r", "o", "s", "k", "a" >>),
       VideoMime(<< "3", "g", "p", "p" >>),
       VideoMime(<< "w", "e", "b", "m" >>),
       VideoMime(<< "x", "-", "f", "l", "v" >>),
       VideoMime(<< "x", "-", "m", "s", "-", "w", "m", "v" >>),
       VideoMime(<< "m", "p", "e", "g" >>) >>

LARGE_FILE_THRESHOLD_BYTES == 500 * 1024 * 1024

\* !value || value.trim() === '' for a string field that may be absent
MissingField(value) == value.t # "string" \/ Trim(value.chars) = <<>>

\* validateVideoFile stopping at the first check that fails.
validateVideoFileFirstFailure(file) ==
    LET result == [valid |-> FALSE, errors |-> << >>]
        hasValidExtension ==
            \E k \in 1..Len(SUPPORTED_VIDEO_EXTENSIONS) :
                EndsWith(ToLowerCase(file.fileName.chars), SUPPORTED_VIDEO_EXTENSIONS[k])
        hasValidMimeType ==
            \E k \in 1..Len(SUPPORTED_MIME_TYPES) :
                SUPPORTED_MIME_TYPES[k] = file.type.chars
    IN  IF MissingField(file.uri)
        THEN [result EXCEPT !.errors =
                 << ValidationError("uri", "Video URI is missing", "MISSING_URI") >>]
        ELSE IF MissingField(file.fileName)
        THEN [result EXCEPT !.errors =
                 << ValidationError("fileName", "Video file name is missing",
                                    "MISSING_FILENAME") >>]
        ELSE IF ~hasValidExtension
        THEN [result EXCEPT !.errors =
                 << ValidationError("fileName", "Unsupported video format",
                                    "UNSUPPORTED_FORMAT") >>]
        ELSE IF file.type.t = "string" /\ file.type.chars # <<>> /\ ~hasValidMimeType
        THEN [result EXCEPT !.errors =
                 << ValidationError("type", << "Invalid video MIME type", file.type >>,
                                    "INVALID_MIME_TYPE") >>]
        ELSE IF Gt(file.fileSize, Num(LARGE_FILE_THRESHOLD_BYTES))
        THEN [result EXCEPT !.errors =
                 << ValidationError(
                        "fileSize",
                        << "Large video file",
                           Round(Div(file.fileSize, Num(1024 * 1024))) >>,
                        "LARGE_FILE_WARNING") >>]
        ELSE [valid |-> TRUE]

validateVideoFile(file) ==
    LET missing ==
            (IF MissingField(file.uri)
             THEN << ValidationError("uri", "Video URI is missing", "MISSING_URI") >>
             ELSE <<>>)
            \o (IF MissingField(file.fileName)
                THEN << ValidationError("fileName", "Video file name is missing",
                                        "MISSING_FILENAME") >>
                ELSE <<>>)
        hasValidExtension ==
            \E k \in 1..Len(SUPPORTED_VIDEO_EXTENSIONS) :
                EndsWith(ToLowerCase(file.fileName.chars), SUPPORTED_VIDEO_EXTENSIONS[k])
        hasValidMimeType ==
            \E k \in 1..Len(SUPPORTED_MIME_TYPES) :
                SUPPORTED_MIME_TYPES[k] = file.type.chars
        errors ==
            (IF ~hasValidExtension
             THEN << ValidationError("fileName", "Unsupported video format",
                                     "UNSUPPORTED_FORMAT") >>
             ELSE <<>>)
            \o (IF file.type.t = "string" /\ file.type.chars # <<>> /\ ~hasValidMimeType
                THEN << ValidationError("type", << "Invalid video MIME type", file.type >>,
                                        "INVALID_MIME_TYPE") >>
                ELSE <<>>)
            \o (IF Gt(file.fileSize, Num(LARGE_FILE_THRESHOLD_BYTES))
                THEN << ValidationError(
                            "fileSize",
                            << "Large video file",
                               Round(Div(file.fileSize, Num(1024 * 1024))) >>,
                            "LARGE_FILE_WARNING") >>
                ELSE <<>>)
    IN  IF Len(missing) > 0 THEN [valid |-> FALSE, errors |-> missing]
        ELSE IF Len(errors) = 0 THEN [valid |-> TRUE]
        ELSE [valid |-> FALSE, errors |-> errors]

isWarning(error) == error.code = "LARGE_FILE_WARNING"

\* ------------------------------------------------------------------------
\* Strategy FPS calculator
\* ------------------------------------------------------------------------

\* calculateUniformSamplingFps sampling at twice the rate.
calculateUniformSamplingFpsDoubled(frameCount, duration) ==
    IF Le(duration, Num(0)) THEN Throw("Duration must be greater than 0")
    ELSE IF Le(frameCount, Num(0)) THEN Throw("Frame count must be greater than 0")
    ELSE Ok(Div(Mul(frameCount, Num(2)), duration))

calculateUniformSamplingFps(frameCount, duration) ==
    IF Le(duration, Num(0)) THEN Throw("Duration must be greater than 0")
    ELSE IF Le(frameCount, Num(0)) THEN Throw("Frame count must be greater than 0")
    ELSE Ok(Div(frameCount, duration))

calculateIntervalBasedFps(intervalSeconds) ==
    IF Le(intervalSeconds, Num(0)) THEN Throw("Interval must be greater than 0")
    ELSE Ok(Div(Num(1), intervalSeconds))

calculateFrameBasedFps(frameInterval, videoFps) ==
    IF Le(frameInterval, Num(0)) THEN Throw("Frame interval must be greater than 0")
    ELSE IF Le(videoFps, Num(0)) THEN Throw("Video FPS must be greater than 0")
    ELSE Ok(Div(videoFps, frameInterval))

calculateExtractionFps(strategy, metadata) ==
    CASE strategy.type = "uniform" ->
            calculateUniformSamplingFps(strategy.frameCount, metadata.duration)
      [] strategy.type = "interval" ->
            calculateIntervalBasedFps(strategy.intervalSeconds)
      [] strategy.type = "frame-based" ->
            calculateFrameBasedFps(strategy.frameInterval, metadata.frameRate)
      [] strategy.type = "all-frames" -> Ok(metadata.frameRate)
      [] strategy.type = "custom-fps" -> Ok(strategy.fps)
      [] OTHER -> Throw("Unknown strategy type")

estimateFrameCount(fps, duration) ==
    IF Le(fps, Num(0)) THEN Throw("FPS must be greater than 0")
    ELSE IF Lt(duration, Num(0)) THEN Throw("Duration cannot be negative")
    ELSE Ok(Round(Mul(fps, duration)))

\* ------------------------------------------------------------------------
\* Storage and duration estimator
\* ------------------------------------------------------------------------

\* JPEG_COMPRESSION_RATIOS with the ratios of qualities 4 and 5 exchanged.
JPEG_COMPRESSION_RATIOS_Exchanged ==
    << 150, 120, 100, 70, 80, 60, 50, 45, 40, 35,
       30, 28, 26, 24, 22, 20, 19, 18, 17, 16,
       15, 14, 13, 12, 11, 10, 9, 8, 7, 6, 5 >>

\* The compression ratios of qualities 1..31, in thousandths.
JPEG_COMPRESSION_RATIOS ==
    << 150, 120, 100, 80, 70, 60, 50, 45, 40, 35,
       30, 28, 26, 24, 22, 20, 19, 18, 17, 16,
       15, 14, 13, 12, 11, 10, 9, 8, 7, 6, 5 >>

SAFETY_MARGIN == Fin(3, 2)

getCompressionRatio(quality) ==
    LET clampedQuality == MathMax(Num(1), MathMin(Num(31), Round(quality)))
    IN  IF IsFinite(clampedQuality)
        THEN Fin(JPEG_COMPRESSION_RATIOS[clampedQuality.n], 1000)
        ELSE Fin(1, 10)

\* estimateFrameStorageSize refusing the quality 31 as well.
estimateFrameStorageSizeBelow31(width, height, quality) ==
    IF Le(width, Num(0)) \/ Le(height, Num(0))
    THEN Throw("Width and height must be greater than 0")
    ELSE IF Lt(quality, Num(1)) \/ ~Lt(quality, Num(31))
    THEN Throw("Quality must be between 1 and 31")
    ELSE LET uncompressedBytes == Mul(Mul(width, height), Num(3))
             compressedBytes == Mul(uncompressedBytes, getCompressionRatio(quality))
             estimatedBytes == Mul(compressedBytes, SAFETY_MARGIN)
         IN  Ok(Div(estimatedBytes, Num(1024 * 1024)))

estimateFrameStorageSize(width, height, quality) ==
    IF Le(width, Num(0)) \/ Le(height, Num(0))
    THEN Throw("Width and height must be greater than 0")
    ELSE IF Lt(quality, Num(1)) \/ Gt(quality, Num(31))
    THEN Throw("Quality must be between 1 and 31")
    ELSE LET uncompressedBytes == Mul(Mul(width, height), Num(3))
             compressedBytes == Mul(uncompressedBytes, getCompressionRatio(quality))
             estimatedBytes == Mul(compressedBytes, SAFETY_MARGIN)
         IN  Ok(Div(estimatedBytes, Num(1024 * 1024)))

estimateTotalStorageSize(frameCount, width, height, quality) ==
    IF Lt(frameCount, Num(0)) THEN Throw("Frame count cannot be negative")
    ELSE IF frameCount = Num(0) THEN Ok(Num(0))
    ELSE LET sizePerFrame == estimateFrameStorageSize(width, height, quality)
         IN  IF sizePerFrame.ok
             THEN Ok(Mul(sizePerFrame.v, frameCount))
             ELSE sizePerFrame

estimateProcessingDuration(frameCount) ==
    IF Lt(frameCount, Num(0)) THEN Throw("Frame count cannot be negative")
    ELSE IF frameCount = Num(0) THEN Ok(Num(0))
    ELSE Ok(Mul(frameCount, Num(100)))

\* ------------------------------------------------------------------------
\* Frame timestamp generator
\* ------------------------------------------------------------------------

\* calculateFrameTimestamp counting the frames from 1.
calculateFrameTimestampOneBased(frameNumber, fps) ==
    IF frameNumber < 0 THEN Throw("Frame number cannot be negative")
    ELSE IF Le(fps, Num(0)) THEN Throw("FPS must be greater than 0")
    ELSE Ok(Div(Num(frameNumber + 1), fps))

calculateFrameTimestamp(frameNumber, fps) ==
    IF frameNumber < 0 THEN Throw("Frame number cannot be negative")
    ELSE IF Le(fps, Num(0)) THEN Throw("FPS must be greater than 0")
    ELSE Ok(Div(Num(frameNumber), fps))

generateFrameInfos(outputPaths, fps) ==
    IF Le(fps, Num(0)) THEN Throw("FPS must be greater than 0")
    ELSE Ok([i \in 1..Len(outputPaths) |->
                [frameNumber |-> i - 1,
                 timestamp |-> calculateFrameTimestamp(i - 1, fps).v,
                 path |-> outputPaths[i]]])

\* ------------------------------------------------------------------------
\* Extraction plan builder
\* ------------------------------------------------------------------------

\* createPlan estimating the storage with the default quality whatever the
\* request's quality is.
createPlanDefaultQualityStorage(request, metadata) ==
    LET extractionFps == calculateExtractionFps(request.strategy, metadata)
        estimatedFrameCount == estimateFrameCount(extractionFps.v, metadata.duration)
        quality == IF request.quality = Undefined
                   THEN Num(DEFAULT_QUALITY)
                   ELSE request.quality
        estimatedStorageMB ==
            estimateTotalStorageSize(estimatedFrameCount.v, metadata.width,
                                     metadata.height, Num(DEFAULT_QUALITY))
        estimatedDurationMs == estimateProcessingDuration(estimatedFrameCount.v)
    IN  IF ~extractionFps.ok THEN extractionFps
        ELSE IF ~estimatedFrameCount.ok THEN estimatedFrameCount
        ELSE IF ~estimatedStorageMB.ok THEN estimatedStorageMB
        ELSE IF ~estimatedDurationMs.ok THEN estimatedDurationMs
        ELSE Ok([videoPath |-> request.videoPath,
                 outputDirectory |-> request.outputDirectory,
                 strategy |-> request.strategy,
                 quality |-> quality,
                 extractionFps |-> extractionFps.v,
                 estimatedFrameCount |-> estimatedFrameCount.v,
                 estimatedStorageMB |-> estimatedStorageMB.v,
                 estimatedDurationMs |-> estimatedDurationMs.v,
                 videoDuration |-> metadata.duration,
                 videoFps |-> metadata.frameRate,
                 videoResolution |-> [width |-> metadata.width,
                                      height |-> metadata.height]])

createPlan(request, metadata) ==
    LET extractionFps == calculateExtractionFps(request.strategy, metadata)
        estimatedFrameCount == estimateFrameCount(extractionFps.v, metadata.duration)
        quality == IF request.quality = Undefined
                   THEN Num(DEFAULT_QUALITY)
                   ELSE request.quality
        estimatedStorageMB ==
            estimateTotalStorageSize(estimatedFrameCount.v, metadata.width,
                                     metadata.height, quality)
        estimatedDurationMs == estimateProcessingDuration(estimatedFrameCount.v)
    IN  IF ~extractionFps.ok THEN extractionFps
        ELSE IF ~estimatedFrameCount.ok THEN estimatedFrameCount
        ELSE IF ~estimatedStorageMB.ok THEN estimatedStorageMB
        ELSE IF ~estimatedDurationMs.ok THEN estimatedDurationMs
        ELSE Ok([videoPath |-> request.videoPath,
                 outputDirectory |-> request.outputDirectory,
                 strategy |-> request.strategy,
                 quality |-> quality,
                 extractionFps |-> extractionFps.v,
                 estimatedFrameCount |-> estimatedFrameCount.v,
                 estimatedStorageMB |-> estimatedStorageMB.v,
                 estimatedDurationMs |-> estimatedDurationMs.v,
                 videoDuration |-> metadata.duration,
                 videoFps |-> metadata.frameRate,
                 videoResolution |-> [width |-> metadata.width,
                                      height |-> metadata.height]])

planToAdapterConfig(plan) ==
    [videoPath |-> plan.videoPath,
     outputDirectory |-> plan.outputDirectory,
     frameRate |-> plan.extractionFps,
     quality |-> plan.quality]

transformResult(adapterResult, plan) ==
    LET frames == generateFrameInfos(adapterResult.outputPaths, plan.extractionFps)
    IN  IF ~frames.ok THEN frames
        ELSE Ok([frames |-> frames.v,
                 totalFrames |-> adapterResult.frameCount,
                 actualStorageMB |-> plan.estimatedStorageMB,
                 processingTimeMs |-> adapterResult.processingTimeMs,
                 strategy |-> plan.strategy])

\* ------------------------------------------------------------------------
\* Video processing errors
\* ------------------------------------------------------------------------

\* The members of the enum VideoProcessingErrorCode (each member's value is
\* its own name).
VideoProcessingErrorCode ==
    { "INVALID_VIDEO_PATH", "INVALID_OUTPUT_DIR", "FFMPEG_FAILED", "VIDEO_NOT_FOUND",
      "UNSUPPORTED_FORMAT", "INSUFFICIENT_STORAGE", "CANCELLED", "UNKNOWN" }

\* The value read by the property access VideoProcessingErrorCode.<member>:
\* a name that is not a member of the enum object reads as undefined.
EnumMember(member) ==
    IF member \in VideoProcessingErrorCode THEN member ELSE "undefined"

\* new VideoProcessingError(message, code, originalError); originalError is
\* kept as a list (empty when the argument is omitted).
VideoProcessingError(message, code, originalError) ==
    [name |-> "VideoProcessingError", message |-> message, code |-> code,
     originalError |-> originalError]

\* new Error(message): no code property.
PlainError(message) == [name |-> "Error", message |-> message]

\* Names every object literal inherits from Object.prototype: reading one of
\* them from the mapping object gives the inherited member, which is truthy.
ObjectPrototypeMembers ==
    { "constructor", "toString", "valueOf", "hasOwnProperty", "__proto__" }

\* mapping[nativeCode] || VideoProcessingErrorCode.UNKNOWN
mapNativeCodeToDomainCode(nativeCode) ==
    IF nativeCode \in { "INVALID_VIDEO_PATH", "INVALID_OUTPUT_DIR", "FFMPEG_FAILED",
                        "VIDEO_NOT_FOUND", "UNSUPPORTED_FORMAT",
                        "INSUFFICIENT_STORAGE", "CANCELLED" }
    THEN EnumMember(nativeCode)
    ELSE IF nativeCode \in ObjectPrototypeMembers
    THEN "[member of Object.prototype]"
    ELSE EnumMember("UNKNOWN")

\* A native (bridge) error is a record with a code and a message; any other
\* thrown value is modelled as a record without a code, and an instance of
\* Error as a record with a name.
isNativeError(error) ==
    "code" \in DOMAIN error /\ "message" \in DOMAIN error

mapNativeErrorToVideoProcessingError(error) ==
    IF "name" \in DOMAIN error /\ error.name = "VideoProcessingError" THEN error
    ELSE IF isNativeError(error)
    THEN VideoProcessingError(error.message, mapNativeCodeToDomainCode(error.code),
                              << error >>)
    ELSE VideoProcessingError(IF "name" \in DOMAIN error
                              THEN error.message
                              ELSE "Unknown error occurred",
                              EnumMember("UNKNOWN"), << error >>)

\* The settlement of a promise.
Resolved(v) == [ok |-> TRUE, v |-> v]

Rejected(error) == [ok |-> FALSE, error |-> error]

\* ------------------------------------------------------------------------
\* Bounds and input sets of the model
\* ------------------------------------------------------------------------

\* Service calls (extractFrames or planExtraction) made on one service.
MaxCalls == 2

\* The most frames the native processor writes in one extraction.
MaxFrames == 3

Calls == 1..MaxCalls

ValidPath == Str(<< "/", "v" >>)

ValidDir == Str(<< "/", "o" >>)

EmptyPath == Str(<< >>)

BlankPath == Str(<< " ", "\t" >>)

Request(videoPath, outputDirectory, strategy, quality) ==
    [videoPath |-> videoPath, outputDirectory |-> outputDirectory,
     strategy |-> strategy, quality |-> quality]

\* The requests the service is called with.
ServiceRequests ==
    { Request(ValidPath, ValidDir, [type |-> "uniform", frameCount |-> Num(100)], Num(2)),
      Request(ValidPath, ValidDir, [type |-> "uniform", frameCount |-> Num(10000)], Num(1)),
      Request(ValidPath, ValidDir, [type |-> "all-frames"], Undefined),
      Request(EmptyPath, EmptyPath, [type |-> "uniform", frameCount |-> Num(0)], Num(0)) }

Metadata(duration, width, height, frameRate, codec) ==
    [duration |-> duration, width |-> width, height |-> height,
     frameRate |-> frameRate, codec |-> codec, bitrate |-> 5000000]

\* The metadata MockVideoProcessingAdapter.getVideoMetadata returns.
MockMetadata == Metadata(Fin(21, 2), Num(1920), Num(1080), Num(30), "h264")

\* What AndroidVideoProcessor.getMetadata reports for a video whose
\* retriever has no capture frame rate: the default 0.0 is substituted.
NativeMetadata ==
    { Metadata(Num(60), Num(1280), Num(720), Num(0), "unknown") }

\* Codes with which the native module rejects getVideoMetadata.
NativeMetadataFailures == { "VIDEO_NOT_FOUND" }

\* Codes with which AndroidVideoProcessor.extractFrames fails before its loop.
NativeValidationFailures == { "INVALID_OUTPUT_DIR" }

\* processingTimeMs values the native processor may measure.
ProcessingTimes == { 150 }

None == [none |-> TRUE]

\* An import of the VideoImportService that has not begun. steps lists the
\* adapter operations and the validation in the order the import invoked them,
\* status is the last permission status an adapter returned and picked is
\* what the picker settled with.
IdleImport ==
    [pc |-> "idle", method |-> "none", permissionType |-> "none",
     steps |-> << >>, status |-> None, picked |-> None, video |-> None,
     result |-> None]

\* ------------------------------------------------------------------------
\* State
\* ------------------------------------------------------------------------

VARIABLES
    adapterKind,      \* the adapter the service was constructed with
    shouldFail,       \* MockVideoProcessingAdapter.shouldFail
    cancelRequested,  \* MockVideoProcessingAdapter.cancelRequested
    cancelled,        \* AndroidVideoProcessor.cancelled
    calls,            \* the service calls made so far, one record per call
    cancelHistory,    \* "none", or whether every cancel so far came while
                      \* no adapter operation was in flight ("idle") or not
    checked,          \* inputs and results of the pure-function checks
    importCall        \* the import made on the VideoImportService

vars == << adapterKind, shouldFail, cancelRequested, cancelled, calls,
           cancelHistory, checked, importCall >>

IdleCall ==
    [pc |-> "idle", method |-> "none", request |-> None, metadata |-> None,
     plan |-> None, pending |-> None, adapterError |-> None,
     adapterResult |-> None,
     value |-> None, error |-> None,
     metadataCalls |-> 0, extractCalls |-> 0,
     nativeStarted |-> FALSE, cancelInFlight |-> FALSE]

\* An adapter operation of some call has been invoked and has not settled.
OperationInFlight == \E c \in Calls : calls[c].pc \in { "metadata", "extracting" }

ServiceInit ==
    /\ adapterKind \in { "mock", "native" }
    /\ shouldFail = FALSE
    /\ cancelRequested = FALSE
    /\ cancelled = FALSE
    /\ calls = [c \in Calls |-> IdleCall]
    /\ cancelHistory = "none"
    /\ importCall = IdleImport

Init ==
    /\ ServiceInit
    /\ checked = None

\* ------------------------------------------------------------------------
\* MockVideoProcessingAdapter
\* ------------------------------------------------------------------------

\* setShouldFail(fail)
SetShouldFail(fail) ==
    /\ adapterKind = "mock"
    /\ shouldFail # fail
    /\ shouldFail' = fail
    /\ UNCHANGED << adapterKind, cancelRequested, cancelled, calls, cancelHistory,
                    checked, importCall >>

\* The settlement of getVideoMetadata, fixed when the method is invoked.
MockGetVideoMetadata ==
    IF shouldFail
    THEN Rejected(VideoProcessingError("Mock metadata extraction failed",
                                       EnumMember("VIDEO_NOT_FOUND"), <<>>))
    ELSE Resolved(MockMetadata)

\* The path of the i-th frame file in a directory.
FramePath(directory, i) == [directory |-> directory, frame |-> i]

\* MockExtractionResult reporting the computed frame count instead of the
\* number of paths it returns.
MockExtractionResultUncapped(config) ==
    LET frameCount == IF config.frameRate.k \in {"fin", "inf"} /\ config.frameRate.n # 0
                      THEN FloorInt(Mul(Num(10), config.frameRate))
                      ELSE 300
        length == IF frameCount < 3 THEN (IF frameCount < 0 THEN 0 ELSE frameCount) ELSE 3
        mockPaths == [i \in 1..length |-> FramePath("/mock/output", i)]
    IN  [outputPaths |-> mockPaths, frameCount |-> frameCount,
         processingTimeMs |-> 150]

\* The result of an extraction that is not failed or cancelled on entry.
MockExtractionResult(config) ==
    LET frameCount == IF config.frameRate.k \in {"fin", "inf"} /\ config.frameRate.n # 0
                      THEN FloorInt(Mul(Num(10), config.frameRate))
                      ELSE 300
        length == IF frameCount < 3 THEN (IF frameCount < 0 THEN 0 ELSE frameCount) ELSE 3
        mockPaths == [i \in 1..length |-> FramePath("/mock/output", i)]
    IN  [outputPaths |-> mockPaths, frameCount |-> Len(mockPaths),
         processingTimeMs |-> 150]

\* The settlement of extractFrames, fixed when the method is invoked.
MockExtractFrames(config) ==
    IF shouldFail
    THEN Rejected(VideoProcessingError("Mock extraction failed",
                                       EnumMember("FFMPEG_FAILED"), <<>>))
    ELSE IF cancelRequested
    THEN Rejected(VideoProcessingError("Operation cancelled",
                                       EnumMember("CANCELLED"), <<>>))
    ELSE Resolved(MockExtractionResult(config))

\* The value of cancelRequested after extractFrames was invoked.
MockExtractFramesFlag == IF shouldFail THEN cancelRequested ELSE FALSE

\* ------------------------------------------------------------------------
\* NativeVideoProcessingAdapter over VideoProcessingModule and
\* AndroidVideoProcessor
\* ------------------------------------------------------------------------

\* The error the bridge rejects with for a VideoProcessorError code.
NativeError(code) == [code |-> code, message |-> code]

\* The settlements getVideoMetadata can have.
NativeGetVideoMetadata ==
    { Rejected(mapNativeErrorToVideoProcessingError(NativeError(code))) :
          code \in NativeMetadataFailures }
    \cup { Resolved(metadata) : metadata \in NativeMetadata }

\* The settlements of an extraction whose loop has run, given the cancelled
\* flag at the end of the loop.
NativeExtractFrames(config, isCancelled) ==
    IF isCancelled
    THEN { Rejected(mapNativeErrorToVideoProcessingError(NativeError("CANCELLED"))) }
    ELSE { Rejected(mapNativeErrorToVideoProcessingError(
                        NativeError("UNSUPPORTED_FORMAT"))) }
         \cup { Resolved([outputPaths |->
                              [i \in 1..count |-> FramePath(config.outputDirectory, i)],
                          frameCount |-> count,
                          processingTimeMs |-> time]) :
                    count \in { 1, MaxFrames }, time \in ProcessingTimes }

\* ------------------------------------------------------------------------
\* FrameExtractionService
\* ------------------------------------------------------------------------

InvalidParamsError(errors) ==
    VideoProcessingError("Invalid extraction request", EnumMember("INVALID_PARAMS"),
                         errors)

InsufficientStorageError(storageErrors) ==
    VideoProcessingError(storageErrors[1].message, EnumMember("INSUFFICIENT_STORAGE"),
                         storageErrors)

\* ValidateStep without the check of the validation result.
ValidateStepUnchecked(request) == [kind |-> "metadata"]

\* The first step of extractFrames and of planExtraction: reject an invalid
\* request, otherwise go on to fetch the metadata.
ValidateStep(request) ==
    LET validation == validateRequest(request)
    IN  IF ~validation.valid
        THEN [kind |-> "reject", error |-> InvalidParamsError(validation.errors)]
        ELSE [kind |-> "metadata"]

\* A rejection caught and wrapped into a new UNKNOWN error.
AwaitRejectionWrapped(error) ==
    VideoProcessingError(error.message, EnumMember("UNKNOWN"), << error >>)

\* await on a rejected adapter promise: the rejection is rethrown as it is.
AwaitRejection(error) == error

\* extractFrames once the metadata is there: plan, quota check, and the
\* configuration adapter.extractFrames is invoked with.
extractFramesAfterMetadata(request, metadata) ==
    LET plan == createPlan(request, metadata)
        storageErrors == validateStorageEstimate(plan.v.estimatedStorageMB)
    IN  IF ~plan.ok
        THEN [kind |-> "reject", plan |-> None, error |-> PlainError(plan.message)]
        ELSE IF Len(storageErrors) > 0
        THEN [kind |-> "reject", plan |-> plan.v,
              error |-> InsufficientStorageError(storageErrors)]
        ELSE [kind |-> "extract", plan |-> plan.v,
              config |-> planToAdapterConfig(plan.v)]

\* planExtraction returning a plan that depends on whether a cancellation
\* was ever requested on the service.
planExtractionAfterMetadataStateful(request, metadata) ==
    LET plan == createPlan(request, metadata)
    IN  IF ~plan.ok
        THEN [kind |-> "reject", plan |-> None, error |-> PlainError(plan.message)]
        ELSE [kind |-> "resolve",
              value |-> [plan.v EXCEPT !.quality = IF cancelHistory = "none"
                                                   THEN @
                                                   ELSE Num(MAX_QUALITY)]]

\* planExtraction going on to the extraction as extractFrames does.
planExtractionAfterMetadataExtracting(request, metadata) ==
    extractFramesAfterMetadata(request, metadata)

\* planExtraction checking the plan against the storage quota as
\* extractFrames does.
planExtractionAfterMetadataQuotaChecked(request, metadata) ==
    LET plan == createPlan(request, metadata)
        storageErrors == validateStorageEstimate(plan.v.estimatedStorageMB)
    IN  IF ~plan.ok
        THEN [kind |-> "reject", plan |-> None, error |-> PlainError(plan.message)]
        ELSE IF Len(storageErrors) > 0
        THEN [kind |-> "reject", plan |-> plan.v,
              error |-> InsufficientStorageError(storageErrors)]
        ELSE [kind |-> "resolve", value |-> plan.v]

\* planExtraction once the metadata is there.
planExtractionAfterMetadata(request, metadata) ==
    LET plan == createPlan(request, metadata)
    IN  IF ~plan.ok
        THEN [kind |-> "reject", plan |-> None, error |-> PlainError(plan.message)]
        ELSE [kind |-> "resolve", value |-> plan.v]

\* extractFrames once the adapter's result is there.
extractFramesAfterExtraction(adapterResult, plan) ==
    LET result == transformResult(adapterResult, plan)
    IN  IF ~result.ok
        THEN [kind |-> "reject", error |-> PlainError(result.message)]
        ELSE [kind |-> "resolve", value |-> result.v]

\* StartCall invoking adapter.getVideoMetadata a second time.
StartCallFetchingTwice(idle, method, request) ==
    LET step == ValidateStep(request)
        call == [idle EXCEPT !.method = method, !.request = request]
    IN  IF step.kind = "reject"
        THEN [call EXCEPT !.pc = "rejected", !.error = step.error]
        ELSE [call EXCEPT !.pc = "metadata",
                          !.metadataCalls = @ + 2,
                          !.pending = IF adapterKind = "mock"
                                      THEN MockGetVideoMetadata
                                      ELSE None]

\* The start of extractFrames and of planExtraction on an idle call: the
\* request is validated and, if valid, adapter.getVideoMetadata is invoked.
StartCall(idle, method, request) ==
    LET step == ValidateStep(request)
        call == [idle EXCEPT !.method = method, !.request = request]
    IN  IF step.kind = "reject"
        THEN [call EXCEPT !.pc = "rejected", !.error = step.error]
        ELSE [call EXCEPT !.pc = "metadata",
                          !.metadataCalls = @ + 1,
                          !.pending = IF adapterKind = "mock"
                                      THEN MockGetVideoMetadata
                                      ELSE None]

\* A caller calls service.extractFrames(request).
CallExtractFrames(c, request) ==
    /\ calls[c].pc = "idle"
    /\ \A d \in Calls : d < c => calls[d].pc # "idle"
    /\ calls' = [calls EXCEPT ![c] = StartCall(@, "extractFrames", request)]
    /\ UNCHANGED << adapterKind, shouldFail, cancelRequested, cancelled,
                    cancelHistory, checked, importCall >>

\* A caller calls service.planExtraction(request).
CallPlanExtraction(c, request) ==
    /\ calls[c].pc = "idle"
    /\ \A d \in Calls : d < c => calls[d].pc # "idle"
    /\ calls' = [calls EXCEPT ![c] = StartCall(@, "planExtraction", request)]
    /\ UNCHANGED << adapterKind, shouldFail, cancelRequested, cancelled,
                    cancelHistory, checked, importCall >>

\* adapter.getVideoMetadata settles and the call continues up to its next
\* await or to its end.
MetadataSettled(c) ==
    /\ calls[c].pc = "metadata"
    /\ \E outcome \in IF adapterKind = "mock"
                      THEN { calls[c].pending }
                      ELSE NativeGetVideoMetadata :
       \E step \in { IF ~outcome.ok THEN None
                      ELSE IF calls[c].method = "extractFrames"
                      THEN extractFramesAfterMetadata(calls[c].request, outcome.v)
                      ELSE planExtractionAfterMetadata(calls[c].request, outcome.v) } :
         LET call == [calls[c] EXCEPT !.pending = None]
         IN  IF ~outcome.ok
             THEN /\ calls' = [calls EXCEPT ![c] =
                        [call EXCEPT !.pc = "rejected",
                                     !.adapterError = outcome.error,
                                     !.error = AwaitRejection(outcome.error)]]
                  /\ UNCHANGED cancelRequested
             ELSE IF step.kind = "reject"
             THEN /\ calls' = [calls EXCEPT ![c] =
                        [call EXCEPT !.pc = "rejected", !.metadata = outcome.v,
                                     !.plan = step.plan, !.error = step.error]]
                  /\ UNCHANGED cancelRequested
             ELSE IF step.kind = "resolve"
             THEN /\ calls' = [calls EXCEPT ![c] =
                        [call EXCEPT !.pc = "resolved", !.metadata = outcome.v,
                                     !.plan = step.value, !.value = step.value]]
                  /\ UNCHANGED cancelRequested
             ELSE /\ calls' = [calls EXCEPT ![c] =
                        [call EXCEPT !.pc = "extracting", !.metadata = outcome.v,
                                     !.plan = step.plan,
                                     !.extractCalls = @ + 1,
                                     !.pending = IF adapterKind = "mock"
                                                 THEN MockExtractFrames(step.config)
                                                 ELSE None]]
                  /\ cancelRequested' = IF adapterKind = "mock"
                                        THEN MockExtractFramesFlag
                                        ELSE cancelRequested
    /\ UNCHANGED << adapterKind, shouldFail, cancelled, cancelHistory, checked, importCall >>

\* The native extraction begins on its dispatcher: the cancelled flag is
\* cleared, then the paths are validated.
NativeExtractStart(c) ==
    /\ adapterKind = "native"
    /\ calls[c].pc = "extracting"
    /\ ~calls[c].nativeStarted
    /\ cancelled' = FALSE
    /\ \/ calls' = [calls EXCEPT ![c].nativeStarted = TRUE]
       \/ \E code \in NativeValidationFailures :
            LET error == mapNativeErrorToVideoProcessingError(NativeError(code))
            IN  calls' = [calls EXCEPT ![c] =
                   [@ EXCEPT !.pc = "rejected", !.adapterError = error,
                             !.error = AwaitRejection(error)]]
    /\ UNCHANGED << adapterKind, shouldFail, cancelRequested, cancelHistory, checked, importCall >>

\* adapter.extractFrames settles and the call runs to its end.
ExtractSettled(c) ==
    /\ calls[c].pc = "extracting"
    /\ adapterKind = "native" => calls[c].nativeStarted
    /\ \E outcome \in IF adapterKind = "mock"
                      THEN { calls[c].pending }
                      ELSE NativeExtractFrames(planToAdapterConfig(calls[c].plan),
                                               cancelled) :
         LET call == [calls[c] EXCEPT !.pending = None]
             step == extractFramesAfterExtraction(outcome.v, call.plan)
         IN  calls' = [calls EXCEPT ![c] =
                IF ~outcome.ok
                THEN [call EXCEPT !.pc = "rejected",
                                  !.adapterError = outcome.error,
                                  !.error = AwaitRejection(outcome.error)]
                ELSE IF step.kind = "reject"
                THEN [call EXCEPT !.pc = "rejected", !.adapterResult = outcome.v,
                                  !.error = step.error]
                ELSE [call EXCEPT !.pc = "resolved", !.adapterResult = outcome.v,
                                  !.value = step.value]]
    /\ UNCHANGED << adapterKind, shouldFail, cancelRequested, cancelled,
                    cancelHistory, checked, importCall >>

\* service.cancelExtraction: forwarded to adapter.cancelOperation, which sets
\* the adapter's flag.
CancelExtraction ==
    /\ cancelRequested' = IF adapterKind = "mock" THEN TRUE ELSE cancelRequested
    /\ cancelled' = IF adapterKind = "native" THEN TRUE ELSE cancelled
    /\ calls' = [c \in Calls |->
                    IF calls[c].pc = "extracting"
                    THEN [calls[c] EXCEPT !.cancelInFlight = TRUE]
                    ELSE calls[c]]
    /\ cancelHistory' = IF OperationInFlight \/ cancelHistory = "inflight"
                        THEN "inflight"
                        ELSE "idle"
    /\ UNCHANGED << adapterKind, shouldFail, checked, importCall >>

Next ==
    \/ \E fail \in BOOLEAN : SetShouldFail(fail)
    \/ \E c \in Calls, request \in ServiceRequests : CallExtractFrames(c, request)
    \/ \E c \in Calls, request \in ServiceRequests : CallPlanExtraction(c, request)
    \/ \E c \in Calls : MetadataSettled(c)
    \/ \E c \in Calls : NativeExtractStart(c)
    \/ \E c \in Calls : ExtractSettled(c)
    \/ CancelExtraction

Spec == Init /\ [][Next]_vars

\* ------------------------------------------------------------------------
\* Checks of the pure functions: an input is drawn, the function is applied
\* ------------------------------------------------------------------------

CheckedPaths == { ValidPath, EmptyPath, BlankPath, NotAString }

CheckedDirectories == { ValidDir, EmptyPath }

CheckedStrategies ==
    { [type |-> "uniform", frameCount |-> Num(0)],
      [type |-> "uniform", frameCount |-> Num(1)],
      [type |-> "uniform", frameCount |-> Num(10000)],
      [type |-> "uniform", frameCount |-> Num(10001)],
      [type |-> "uniform", frameCount |-> Fin(3, 2)],
      [type |-> "uniform", frameCount |-> NaN],
      [type |-> "interval", intervalSeconds |-> Num(0)],
      [type |-> "interval", intervalSeconds |-> Num(2)],
      [type |-> "frame-based", frameInterval |-> Num(0)],
      [type |-> "frame-based", frameInterval |-> Num(30)],
      [type |-> "all-frames"],
      [type |-> "custom-fps", fps |-> Num(5)],
      [type |-> "custom-fps", fps |-> Num(121)],
      [type |-> "bogus"] }

CheckedQualities == { Undefined, Num(0), Num(2), Num(32), NaN }

CheckedRequests ==
    { Request(videoPath, outputDirectory, strategy, quality) :
          videoPath \in CheckedPaths, outputDirectory \in CheckedDirectories,
          strategy \in CheckedStrategies, quality \in CheckedQualities }

\* The service stands idle while a pure function is checked.
ValidateInit ==
    /\ ServiceInit
    /\ adapterKind = "mock"
    /\ \E request \in CheckedRequests :
         checked = [op |-> "validateRequest", request |-> request,
                    done |-> FALSE, result |-> None]

ApplyValidateRequest ==
    /\ checked.op = "validateRequest"
    /\ ~checked.done
    /\ checked' = [checked EXCEPT !.done = TRUE,
                                  !.result = validateRequest(checked.request)]
    /\ UNCHANGED << adapterKind, shouldFail, cancelRequested, cancelled, calls,
                    cancelHistory, importCall >>

ValidateNext == ApplyValidateRequest

ValidateSpec == ValidateInit /\ [][ValidateNext]_vars

\* ------------------------------------------------------------------------
\* The validators and calculators applied to inputs of their own
\* ------------------------------------------------------------------------

VideoFile(uri, fileName, fileSize, type) ==
    [uri |-> uri, fileName |-> fileName, fileSize |-> fileSize, type |-> type]

ValidUri == Str(<< "f", "i", "l", "e", ":", "/", "v" >>)

CheckedUris == { ValidUri, EmptyPath, BlankPath, NotAString }

CheckedFileNames ==
    { Str(<< "a", ".", "m", "p", "4" >>),
      Str(<< "A", ".", "M", "o", "V" >>),
      Str(<< "a", ".", "t", "x", "t" >>),
      Str(<< "m", "p", "4" >>),
      Str(<< "a", ".", "m", "p", "4", " " >>),
      EmptyPath, BlankPath }

CheckedFileSizes ==
    { Num(0), Num(15728640), Num(LARGE_FILE_THRESHOLD_BYTES),
      Num(LARGE_FILE_THRESHOLD_BYTES + 1), Num(2 * LARGE_FILE_THRESHOLD_BYTES) }

CheckedMimeTypes ==
    { NotAString, Str(<< >>),
      Str(VideoMime(<< "m", "p", "4" >>)),
      Str(VideoMime(<< "M", "P", "4" >>)),
      Str(<< "t", "e", "x", "t", "/", "p", "l", "a", "i", "n" >>) }

CheckedVideoFiles ==
    { VideoFile(uri, fileName, fileSize, type) :
          uri \in CheckedUris, fileName \in CheckedFileNames,
          fileSize \in CheckedFileSizes, type \in CheckedMimeTypes }

CheckedNumbers ==
    { Undefined, NaN, PosInfinity, NegInfinity,
      Num(-1), Num(0), Fin(1, 2000), Fin(1, 1000), Fin(1, 2), Num(1), Fin(3, 2),
      Num(100), Num(120), Fin(241, 2), Num(121), Num(1000), Num(1001),
      Num(3600), Fin(7201, 2), Num(3601), Num(10000), Num(10001) }

NumericValidators ==
    { "validateUniformSampling", "validateIntervalBased", "validateFrameBased",
      "validateCustomFps" }

CheckedFpsStrategies ==
    { [type |-> "uniform", frameCount |-> Num(1)],
      [type |-> "uniform", frameCount |-> Num(100)],
      [type |-> "uniform", frameCount |-> Num(0)],
      [type |-> "interval", intervalSeconds |-> Num(2)],
      [type |-> "interval", intervalSeconds |-> Fin(1, 1000)],
      [type |-> "interval", intervalSeconds |-> Num(0)],
      [type |-> "frame-based", frameInterval |-> Num(30)],
      [type |-> "frame-based", frameInterval |-> Num(0)],
      [type |-> "all-frames"],
      [type |-> "custom-fps", fps |-> Num(5)],
      [type |-> "custom-fps", fps |-> Fin(1, 1000)],
      [type |-> "custom-fps", fps |-> Num(0)],
      [type |-> "custom-fps", fps |-> Num(-1)],
      [type |-> "bogus"] }

\* Metadata of the mock adapter, of the Android processor, and of videos
\* whose duration or frame rate is zero or a fraction.
CheckedMetadata ==
    { MockMetadata }
    \cup NativeMetadata
    \cup { Metadata(Num(0), Num(1920), Num(1080), Num(30), "h264"),
           Metadata(Fin(1, 3), Num(640), Num(480), Fin(2997, 100), "h264") }

\* The qualities from 1 to 31 in steps of a quarter.
QualitySteps == 4

QualitiesInRange == { Fin(k, QualitySteps) : k \in QualitySteps..(31 * QualitySteps) }

QualitiesOutOfRange ==
    { Num(-1), Num(0), Fin(1, 2), Fin(63, 2), Num(32), Num(100),
      NaN, PosInfinity, NegInfinity }

CheckedDimensions ==
    { << Num(1920), Num(1080) >>, << Num(1280), Num(720) >>, << Num(1), Num(1) >>,
      << Num(0), Num(1080) >>, << Num(1920), Num(0) >>, << Num(-1920), Num(1080) >> }

\* Lists of up to MaxFrames output paths, in every order and with repeats.
CheckedPathLists ==
    UNION { [1..n -> { FramePath("/out", 1), FramePath("/out", 2) }] : n \in 0..MaxFrames }

CheckedFps ==
    { Num(10), Fin(1, 2), Num(60), Fin(30000, 1001), PosInfinity,
      Num(0), Num(-10), NegInfinity }

CheckedFrameCounts == { Num(1), Num(2), Num(7), Num(100), Num(9999), Num(10000) }

\* Requests validateRequest accepts: every uniform frame count above with
\* and without a quality, and the other strategies with their parameters at
\* the ends of and inside their ranges, with qualities at the ends of and
\* inside the quality range.
CheckedPlanRequests ==
    { Request(ValidPath, ValidDir, [type |-> "uniform", frameCount |-> frameCount],
              quality) :
          frameCount \in CheckedFrameCounts, quality \in { Undefined, Num(1), Num(31) } }
    \cup { Request(ValidPath, ValidDir, strategy, quality) :
               strategy \in
                   { [type |-> "interval", intervalSeconds |-> MIN_INTERVAL_SECONDS],
                     [type |-> "interval", intervalSeconds |-> Num(2)],
                     [type |-> "interval", intervalSeconds |-> Num(MAX_INTERVAL_SECONDS)],
                     [type |-> "frame-based", frameInterval |-> Num(MIN_FRAME_INTERVAL)],
                     [type |-> "frame-based", frameInterval |-> Num(30)],
                     [type |-> "frame-based", frameInterval |-> Num(MAX_FRAME_INTERVAL)],
                     [type |-> "all-frames"],
                     [type |-> "custom-fps", fps |-> MIN_FPS],
                     [type |-> "custom-fps", fps |-> Num(5)],
                     [type |-> "custom-fps", fps |-> Num(MAX_FPS)] },
               quality \in { Undefined, Num(1), Fin(3, 2), Num(31) } }

\* Metadata of videos from a millisecond to two hours long, and of one
\* without duration.
CheckedPlanMetadata ==
    { Metadata(duration, Num(1920), Num(1080), frameRate, "h264") :
          duration \in { Fin(1, 1000), Fin(1, 3), Fin(21, 2), Num(60), Num(7200),
                         Num(0) },
          frameRate \in { Num(30), Fin(2997, 100), Num(0) } }

CheckedStorageEstimates ==
    { Num(-1), Num(0), Fin(1, 2), Num(100), Num(1000), Num(4999), Fin(9999, 2),
      Num(5000), Fin(5000001, 1000), Num(5001), Num(50001), Num(1000000),
      NaN, PosInfinity, NegInfinity }

\* Values the native adapter catches: a domain error, bridge errors with the
\* codes of the mapping table, with the native UNKNOWN code, with React
\* Native's default code and with a code naming a member every object
\* inherits, an Error without a code, and a thrown value that is no object.
CheckedThrownValues ==
    { VideoProcessingError("Operation was cancelled", EnumMember("CANCELLED"), << >>),
      PlainError("module is undefined"),
      [value |-> "boom"] }
    \cup { [code |-> code, message |-> "Video processing failed"] :
               code \in (VideoProcessingErrorCode
                         \cup { "EUNSPECIFIED", "constructor" }) }

\* One application of a function: its name, its arguments, and its result
\* once it has been applied.
Application(op, args) == [op |-> op, args |-> args, done |-> FALSE, result |-> None]

FunctionInputs ==
    { Application("validateVideoFile", [file |-> file]) : file \in CheckedVideoFiles }
    \cup { Application(op, [value |-> value]) :
               op \in NumericValidators, value \in CheckedNumbers }
    \cup { Application("estimateFrameStorageSize",
                       [width |-> size[1], height |-> size[2], quality |-> quality]) :
               size \in CheckedDimensions,
               quality \in QualitiesInRange \cup QualitiesOutOfRange }
    \cup { Application("generateFrameInfos", [outputPaths |-> paths, fps |-> fps]) :
               paths \in CheckedPathLists, fps \in CheckedFps }
    \cup { Application("createPlan", [request |-> request, metadata |-> metadata]) :
               request \in CheckedPlanRequests, metadata \in CheckedPlanMetadata }
    \cup { Application("validateStorageEstimate", [estimatedStorageMB |-> estimate]) :
               estimate \in CheckedStorageEstimates }
    \cup { Application("mapNativeErrorToVideoProcessingError", [error |-> error]) :
               error \in CheckedThrownValues }
    \cup { Application("calculateExtractionFps",
                       [strategy |-> strategy, metadata |-> metadata]) :
               strategy \in CheckedFpsStrategies, metadata \in CheckedMetadata }

\* The service stands idle while a function is applied.
FunctionInit ==
    /\ ServiceInit
    /\ adapterKind = "mock"
    /\ \/ checked \in FunctionInputs
       \/ \E request \in CheckedRequests :
            checked = [op |-> "validateRequest", request |-> request,
                       done |-> FALSE, result |-> None]

\* The function named by op is applied to the arguments held in checked.
Apply(op, result) ==
    /\ checked.op = op
    /\ ~checked.done
    /\ checked' = [checked EXCEPT !.done = TRUE, !.result = result]
    /\ UNCHANGED << adapterKind, shouldFail, cancelRequested, cancelled, calls,
                    cancelHistory, importCall >>

ApplyValidateVideoFile ==
    /\ checked.op = "validateVideoFile"
    /\ Apply("validateVideoFile", validateVideoFile(checked.args.file))

ApplyValidateUniformSampling ==
    /\ checked.op = "validateUniformSampling"
    /\ Apply("validateUniformSampling", validateUniformSampling(checked.args.value))

ApplyValidateIntervalBased ==
    /\ checked.op = "validateIntervalBased"
    /\ Apply("validateIntervalBased", validateIntervalBased(checked.args.value))

ApplyValidateFrameBased ==
    /\ checked.op = "validateFrameBased"
    /\ Apply("validateFrameBased", validateFrameBased(checked.args.value))

ApplyValidateCustomFps ==
    /\ checked.op = "validateCustomFps"
    /\ Apply("validateCustomFps", validateCustomFps(checked.args.value))

ApplyCalculateExtractionFps ==
    /\ checked.op = "calculateExtractionFps"
    /\ Apply("calculateExtractionFps",
             calculateExtractionFps(checked.args.strategy, checked.args.metadata))

ApplyEstimateFrameStorageSize ==
    /\ checked.op = "estimateFrameStorageSize"
    /\ Apply("estimateFrameStorageSize",
             estimateFrameStorageSize(checked.args.width, checked.args.height,
                                      checked.args.quality))

ApplyGenerateFrameInfos ==
    /\ checked.op = "generateFrameInfos"
    /\ Apply("generateFrameInfos",
             generateFrameInfos(checked.args.outputPaths, checked.args.fps))

ApplyCreatePlan ==
    /\ checked.op = "createPlan"
    /\ Apply("createPlan", createPlan(checked.args.request, checked.args.metadata))

ApplyValidateStorageEstimate ==
    /\ checked.op = "validateStorageEstimate"
    /\ Apply("validateStorageEstimate",
             validateStorageEstimate(checked.args.estimatedStorageMB))

\* The mapping is applied to a caught value, and again to its own result.
ApplyMapNativeError ==
    /\ checked.op = "mapNativeErrorToVideoProcessingError"
    /\ \E once \in { mapNativeErrorToVideoProcessingError(checked.args.error) } :
         Apply("mapNativeErrorToVideoProcessingError",
               [once |-> once, twice |-> mapNativeErrorToVideoProcessingError(once)])

FunctionNext ==
    \/ ApplyValidateRequest
    \/ ApplyValidateVideoFile
    \/ ApplyValidateUniformSampling
    \/ ApplyValidateIntervalBased
    \/ ApplyValidateFrameBased
    \/ ApplyValidateCustomFps
    \/ ApplyCalculateExtractionFps
    \/ ApplyEstimateFrameStorageSize
    \/ ApplyGenerateFrameInfos
    \/ ApplyCreatePlan
    \/ ApplyValidateStorageEstimate
    \/ ApplyMapNativeError

FunctionSpec == FunctionInit /\ [][FunctionNext]_vars

\* ------------------------------------------------------------------------
\* VideoImportService
\* ------------------------------------------------------------------------

PermissionStatuses == { "granted", "denied", "blocked", "unavailable" }

VideoImportError(message, code, validationResult) ==
    [name |-> "VideoImportError", message |-> message, code |-> code,
     validationResult |-> validationResult]

\* A throw statement that throws an error object.
Thrown(error) == [ok |-> FALSE, error |-> error]

\* validateVideo failing on every finding, warnings included.
validateVideoBlockingWarnings(file) ==
    LET validation == validateVideoFile(file)
    IN  IF ~validation.valid /\ Len(validation.errors) > 0
        THEN Thrown(VideoImportError(
                 << "Invalid video file",
                    [i \in 1..Len(validation.errors) |-> validation.errors[i].message] >>,
                 "INVALID_VIDEO",
                 [valid |-> FALSE, errors |-> validation.errors]))
        ELSE Ok(None)

\* validateVideo treating an unsupported MIME type as a warning too.
validateVideoMimeAsWarning(file) ==
    LET validation == validateVideoFile(file)
        errors == IF validation.valid THEN << >>
                  ELSE SelectSeq(validation.errors,
                                 LAMBDA e : ~isWarning(e) /\ e.code # "INVALID_MIME_TYPE")
    IN  IF ~validation.valid /\ Len(errors) > 0
        THEN Thrown(VideoImportError(
                 << "Invalid video file",
                    [i \in 1..Len(errors) |-> errors[i].message] >>,
                 "INVALID_VIDEO",
                 [valid |-> FALSE, errors |-> errors]))
        ELSE Ok(None)

validateVideo(file) ==
    LET validation == validateVideoFile(file)
        errors == IF validation.valid THEN << >>
                  ELSE SelectSeq(validation.errors, LAMBDA e : ~isWarning(e))
    IN  IF ~validation.valid /\ Len(errors) > 0
        THEN Thrown(VideoImportError(
                 << "Invalid video file",
                    [i \in 1..Len(errors) |-> errors[i].message] >>,
                 "INVALID_VIDEO",
                 [valid |-> FALSE, errors |-> errors]))
        ELSE Ok(None)

\* The switch of ensurePermission for a status other than GRANTED.
PermissionFailure(permissionType, status) ==
    LET name == IF permissionType = "PHOTO_LIBRARY" THEN "Photo library" ELSE "Camera"
    IN  IF status = "denied"
        THEN VideoImportError(<< name, "permission denied" >>, "PERMISSION_DENIED", None)
        ELSE IF status = "blocked"
        THEN VideoImportError(
                 << name, "permission blocked. Please enable in device settings." >>,
                 "PERMISSION_BLOCKED", None)
        ELSE VideoImportError(<< name, "permission unavailable on this device" >>,
                              "PERMISSION_UNAVAILABLE", None)

\* What filePickerAdapter.pickVideo and pickVideoFromCamera settle with: a
\* video file, null (None) or an error.
PickerOutcomes ==
    { Resolved(file) : file \in CheckedVideoFiles }
    \cup { Resolved(None), Rejected(PlainError("Picker error")) }

\* launchPicker and launchCamera reporting a cancelled selection as a
\* picker failure.
LaunchSettledCancelAsFailure(method, outcome) ==
    IF outcome.ok /\ outcome.v # None
    THEN Resolved(outcome.v)
    ELSE Rejected(VideoImportError(
             IF method = "importVideoFromGallery"
             THEN "Failed to pick video" ELSE "Failed to record video",
             "PICKER_ERROR", None))

\* launchPicker and launchCamera once the adapter has settled with outcome.
LaunchSettled(method, outcome) ==
    IF outcome.ok
    THEN IF outcome.v = None
         THEN Rejected(VideoImportError(
                  IF method = "importVideoFromGallery"
                  THEN "Video selection cancelled" ELSE "Video recording cancelled",
                  "USER_CANCELLED", None))
         ELSE Resolved(outcome.v)
    ELSE IF outcome.error.name = "VideoImportError"
    THEN Rejected(outcome.error)
    ELSE Rejected(VideoImportError(
             << IF method = "importVideoFromGallery"
                THEN "Failed to pick video" ELSE "Failed to record video",
                outcome.error.message >>,
             "PICKER_ERROR", None))

\* The import runs up to its first await: permissionAdapter.check is invoked.
StartImport(method, permissionType) ==
    [IdleImport EXCEPT !.pc = "checking", !.method = method,
                       !.permissionType = permissionType, !.steps = << "check" >>]

ImportVideoFromGallery ==
    /\ importCall.pc = "idle"
    /\ importCall' = StartImport("importVideoFromGallery", "PHOTO_LIBRARY")
    /\ UNCHANGED << adapterKind, shouldFail, cancelRequested, cancelled, calls,
                    cancelHistory, checked >>

ImportVideoFromCamera ==
    /\ importCall.pc = "idle"
    /\ importCall' = StartImport("importVideoFromCamera", "CAMERA")
    /\ UNCHANGED << adapterKind, shouldFail, cancelRequested, cancelled, calls,
                    cancelHistory, checked >>

\* ensurePermission going on to the picker for a blocked permission as well.
PermissionSettledLenient(call, status) ==
    IF status \in { "granted", "blocked" }
    THEN [call EXCEPT !.pc = "picking", !.status = status,
                      !.steps = Append(@, "pick")]
    ELSE [call EXCEPT !.pc = "rejected", !.status = status,
                      !.result = Rejected(PermissionFailure(call.permissionType, status))]

\* ensurePermission after its last await: GRANTED goes on to the picker,
\* every other status fails the import.
PermissionSettled(call, status) ==
    IF status = "granted"
    THEN [call EXCEPT !.pc = "picking", !.status = status,
                      !.steps = Append(@, "pick")]
    ELSE [call EXCEPT !.pc = "rejected", !.status = status,
                      !.result = Rejected(PermissionFailure(call.permissionType, status))]

\* permissionAdapter.check settles.
PermissionChecked ==
    /\ importCall.pc = "checking"
    /\ \E status \in PermissionStatuses :
         importCall' =
             IF status = "denied"
             THEN [importCall EXCEPT !.pc = "requesting", !.status = status,
                                     !.steps = Append(@, "request")]
             ELSE PermissionSettled(importCall, status)
    /\ UNCHANGED << adapterKind, shouldFail, cancelRequested, cancelled, calls,
                    cancelHistory, checked >>

\* permissionAdapter.request settles.
PermissionRequested ==
    /\ importCall.pc = "requesting"
    /\ \E status \in PermissionStatuses :
         importCall' = PermissionSettled(importCall, status)
    /\ UNCHANGED << adapterKind, shouldFail, cancelRequested, cancelled, calls,
                    cancelHistory, checked >>

\* The picker settles; the import validates the video and runs to its end.
PickerSettled ==
    /\ importCall.pc = "picking"
    /\ \E outcome \in PickerOutcomes :
       \E launched \in { LaunchSettled(importCall.method, outcome) } :
         IF ~launched.ok
         THEN importCall' = [importCall EXCEPT !.pc = "rejected", !.picked = outcome,
                                               !.result = launched]
         ELSE \E validated \in { validateVideo(launched.v) } :
                importCall' =
                    IF validated.ok
                    THEN [importCall EXCEPT !.pc = "resolved", !.picked = outcome,
                                            !.video = launched.v,
                                            !.steps = Append(@, "validate"),
                                            !.result = Resolved(launched.v)]
                    ELSE [importCall EXCEPT !.pc = "rejected", !.picked = outcome,
                                            !.video = launched.v,
                                            !.steps = Append(@, "validate"),
                                            !.result = Rejected(validated.error)]
    /\ UNCHANGED << adapterKind, shouldFail, cancelRequested, cancelled, calls,
                    cancelHistory, checked >>

ImportInit ==
    /\ ServiceInit
    /\ adapterKind = "mock"
    /\ checked = None

ImportNext ==
    \/ ImportVideoFromGallery
    \/ ImportVideoFromCamera
    \/ PermissionChecked
    \/ PermissionRequested
    \/ PickerSettled

ImportSpec == ImportInit /\ [][ImportNext]_vars

\* ------------------------------------------------------------------------
\* Properties
\* ------------------------------------------------------------------------

Started(c) == calls[c].pc # "idle"

Finished(c) == calls[c].pc \in { "resolved", "rejected" }

RejectedWith(c, code) ==
    /\ calls[c].pc = "rejected"
    /\ calls[c].error.name = "VideoProcessingError"
    /\ calls[c].error.code = code

\* C1: a call of extractFrames or planExtraction whose request validateRequest
\* rejects has failed, and it has invoked neither getVideoMetadata nor
\* extractFrames of the adapter.
C1_InvalidRequestNeverReachesAdapter ==
    \A c \in Calls :
        (Started(c) /\ ~validateRequest(calls[c].request).valid)
            => /\ calls[c].pc = "rejected"
               /\ calls[c].metadataCalls = 0
               /\ calls[c].extractCalls = 0

\* C1 witness: an extractFrames call and a planExtraction call have both
\* been rejected for an invalid request.
C1_Witness ==
    \E c, d \in Calls :
        /\ calls[c].method = "extractFrames" /\ calls[d].method = "planExtraction"
        /\ ~validateRequest(calls[c].request).valid
        /\ ~validateRequest(calls[d].request).valid
        /\ calls[c].pc = "rejected" /\ calls[d].pc = "rejected"

\* The plan of call c has a finite estimated storage above the quota.
PlanOverQuota(c) ==
    /\ calls[c].plan # None
    /\ IsFinite(calls[c].plan.estimatedStorageMB)
    /\ Gt(calls[c].plan.estimatedStorageMB, Num(5000))

\* C2: when the plan built for an extractFrames call has a finite
\* estimatedStorageMB above 5000, the call fails with INSUFFICIENT_STORAGE
\* and adapter.extractFrames was never invoked by it.
C2_OverQuotaFailsBeforeExtraction ==
    \A c \in Calls :
        (calls[c].method = "extractFrames" /\ PlanOverQuota(c))
            => /\ RejectedWith(c, "INSUFFICIENT_STORAGE")
               /\ calls[c].extractCalls = 0

\* C2 witness: an extractFrames call whose plan is over the quota has ended.
C2_Witness ==
    \E c \in Calls :
        /\ calls[c].method = "extractFrames"
        /\ PlanOverQuota(c)
        /\ calls[c].pc = "rejected"

\* C3: a call rejected because validation failed carries a code that is a
\* member of VideoProcessingErrorCode, a code no other failure kind uses,
\* and the complete error list of validateRequest.
C3_InvalidParamsCodeInTaxonomy ==
    \A c \in Calls :
        (Started(c) /\ ~validateRequest(calls[c].request).valid)
            => /\ calls[c].pc = "rejected"
               /\ calls[c].error.name = "VideoProcessingError"
               /\ calls[c].error.code \in VideoProcessingErrorCode
               /\ calls[c].error.originalError = validateRequest(calls[c].request).errors
               /\ \A d \in Calls :
                    (calls[d].pc = "rejected" /\ validateRequest(calls[d].request).valid
                     /\ "code" \in DOMAIN calls[d].error)
                        => calls[d].error.code # calls[c].error.code

\* C4: planExtraction never invokes adapter.extractFrames, and when it has
\* succeeded it has invoked adapter.getVideoMetadata exactly once.
C4_PlanExtractionNeverExtracts ==
    \A c \in Calls :
        calls[c].method = "planExtraction"
            => /\ calls[c].extractCalls = 0
               /\ calls[c].pc # "extracting"
               /\ calls[c].pc = "resolved" => calls[c].metadataCalls = 1

\* C4 witness: a planExtraction call has returned its plan.
C4_Witness ==
    \E c \in Calls :
        /\ calls[c].method = "planExtraction"
        /\ calls[c].pc = "resolved"
        /\ calls[c].value = createPlan(calls[c].request, calls[c].metadata).v

\* C5: an extraction during whose flight cancellation was requested ends
\* with a CANCELLED failure and never with a result.
C5_CancelInFlightEndsCancelled ==
    \A c \in Calls :
        (calls[c].cancelInFlight /\ Finished(c)) => RejectedWith(c, "CANCELLED")

\* C6: as long as every cancel was requested while no operation was in
\* flight, no call is failed with CANCELLED.
C6_IdleCancelIsNoOp ==
    cancelHistory \in { "none", "idle" }
        => \A c \in Calls : ~RejectedWith(c, "CANCELLED")

\* C7: the result of a successful extractFrames has totalFrames equal to
\* the number of its frames, and its frames are the adapter's reported
\* output paths in the reported order.
C7_TotalFramesMatchesFrames ==
    \A c \in Calls :
        (calls[c].method = "extractFrames" /\ calls[c].pc = "resolved")
            => /\ calls[c].value.totalFrames = Len(calls[c].value.frames)
               /\ Len(calls[c].value.frames) = Len(calls[c].adapterResult.outputPaths)
               /\ \A i \in 1..Len(calls[c].value.frames) :
                    calls[c].value.frames[i].path = calls[c].adapterResult.outputPaths[i]

\* C7 witness: extractFrames has returned a result with several frames.
C7_Witness ==
    \E c \in Calls :
        /\ calls[c].method = "extractFrames"
        /\ calls[c].pc = "resolved"
        /\ Len(calls[c].value.frames) > 1

\* C8: every failure of extractFrames or planExtraction is a
\* VideoProcessingError whose code is a member of VideoProcessingErrorCode,
\* failures raised while the plan is built from the fetched metadata
\* included. Stated for the calls whose request passed validation; the code
\* of a validation failure is the subject of C3.
C8_EveryFailureInTaxonomy ==
    \A c \in Calls :
        (calls[c].pc = "rejected" /\ validateRequest(calls[c].request).valid)
            => /\ calls[c].error.name = "VideoProcessingError"
               /\ calls[c].error.code \in VideoProcessingErrorCode

\* C9: when getVideoMetadata or extractFrames of the adapter has failed,
\* extractFrames is rejected with that very error, and after a failed
\* getVideoMetadata adapter.extractFrames is not invoked.
C9_AdapterFailurePropagatedUnchanged ==
    \A c \in Calls :
        (calls[c].method = "extractFrames" /\ calls[c].adapterError # None)
            => /\ calls[c].pc = "rejected"
               /\ calls[c].error = calls[c].adapterError
               /\ calls[c].metadata = None => calls[c].extractCalls = 0

\* C9 witness: one extractFrames call has failed in getVideoMetadata and
\* another in extractFrames with CANCELLED.
C9_Witness ==
    \E c, d \in Calls :
        /\ calls[c].method = "extractFrames" /\ calls[d].method = "extractFrames"
        /\ calls[c].adapterError # None /\ calls[c].metadata = None
        /\ calls[d].adapterError # None /\ calls[d].extractCalls = 1
        /\ RejectedWith(d, "CANCELLED")

\* The errors of a list that belong to one of the given fields.
FieldErrors(errors, fields) == SelectSeq(errors, LAMBDA e : e.field \in fields)

StrategyFields == { "frameCount", "intervalSeconds", "frameInterval", "fps", "strategy" }

\* The position of an error's field in the order of the checks.
FieldRank(field) ==
    CASE field = "videoPath" -> 1
      [] field = "outputDirectory" -> 2
      [] field \in StrategyFields -> 3
      [] field = "quality" -> 4
      [] OTHER -> 5

\* The errors of a validation result.
ResultErrors(result) == IF result.valid THEN <<>> ELSE result.errors

PathViolated(request) ==
    request.videoPath.t # "string" \/ Trim(request.videoPath.chars) = <<>>

DirectoryViolated(request) ==
    request.outputDirectory.t # "string" \/ Trim(request.outputDirectory.chars) = <<>>

StrategyViolated(request) == validateStrategy(request.strategy) # <<>>

QualityViolated(request) ==
    request.quality # Undefined /\ validateQuality(request.quality) # <<>>

\* C10: validateRequest reports for each of videoPath, outputDirectory,
\* strategy and (when present) quality exactly the errors of that field's
\* validator, in the order of the fields, whatever the other fields are; a
\* request violating all four fields yields at least four errors, one per
\* field.
C10_ValidateRequestCollectsAll ==
    (checked # None /\ checked.op = "validateRequest" /\ checked.done)
        => LET request == checked.request
               errors == ResultErrors(checked.result)
           IN  /\ FieldErrors(errors, {"videoPath"}) = validateVideoPath(request.videoPath)
               /\ FieldErrors(errors, {"outputDirectory"})
                     = validateOutputDirectory(request.outputDirectory)
               /\ FieldErrors(errors, StrategyFields) = validateStrategy(request.strategy)
               /\ FieldErrors(errors, {"quality"})
                     = IF request.quality # Undefined
                       THEN validateQuality(request.quality)
                       ELSE <<>>
               /\ \A i, j \in 1..Len(errors) :
                    i < j => FieldRank(errors[i].field) <= FieldRank(errors[j].field)
               /\ \A i \in 1..Len(errors) : FieldRank(errors[i].field) <= 4
               /\ (PathViolated(request) /\ DirectoryViolated(request)
                   /\ StrategyViolated(request) /\ QualityViolated(request))
                      => /\ Len(errors) >= 4
                         /\ \A rank \in 1..4 :
                              \E i \in 1..Len(errors) : FieldRank(errors[i].field) = rank

\* C10 witness: validateRequest has been applied to a request that violates
\* all four fields.
C10_Witness ==
    /\ checked # None /\ checked.op = "validateRequest" /\ checked.done
    /\ PathViolated(checked.request) /\ DirectoryViolated(checked.request)
    /\ StrategyViolated(checked.request) /\ QualityViolated(checked.request)
    /\ Len(ResultErrors(checked.result)) >= 4

\* The function op has been applied to the arguments held in checked.
Applied(op) == checked # None /\ checked.op = op /\ checked.done

\* C11: validateRequest and validateVideoFile return valid:true exactly
\* when they collected no error; a valid:true result carries no error list
\* and every valid:false result carries a non-empty one.
C11_ValidIffNoErrors ==
    /\ Applied("validateRequest") =>
          /\ checked.result.valid <=>
                /\ validateVideoPath(checked.request.videoPath) = <<>>
                /\ validateOutputDirectory(checked.request.outputDirectory) = <<>>
                /\ validateStrategy(checked.request.strategy) = <<>>
                /\ \/ checked.request.quality = Undefined
                   \/ validateQuality(checked.request.quality) = <<>>
          /\ checked.result.valid => DOMAIN checked.result = { "valid" }
          /\ ~checked.result.valid => Len(checked.result.errors) > 0
    /\ Applied("validateVideoFile") =>
          /\ checked.result.valid <=>
                /\ ~MissingField(checked.args.file.uri)
                /\ ~MissingField(checked.args.file.fileName)
                /\ \E k \in 1..Len(SUPPORTED_VIDEO_EXTENSIONS) :
                      EndsWith(ToLowerCase(checked.args.file.fileName.chars),
                               SUPPORTED_VIDEO_EXTENSIONS[k])
                /\ \/ checked.args.file.type.t # "string"
                   \/ checked.args.file.type.chars = <<>>
                   \/ \E k \in 1..Len(SUPPORTED_MIME_TYPES) :
                         SUPPORTED_MIME_TYPES[k] = checked.args.file.type.chars
                /\ ~Gt(checked.args.file.fileSize, Num(LARGE_FILE_THRESHOLD_BYTES))
          /\ checked.result.valid => DOMAIN checked.result = { "valid" }
          /\ ~checked.result.valid => Len(checked.result.errors) > 0

\* C11 witness: validateVideoFile has returned valid:false for a file whose
\* only finding is one error.
C11_Witness ==
    /\ Applied("validateVideoFile")
    /\ ~checked.result.valid
    /\ Len(checked.result.errors) = 1

\* What the claim states for each numeric validator: whether it requires
\* an integer, its inclusive bounds and its three codes.
ValidatorRule(op) ==
    CASE op = "validateUniformSampling" ->
            [integer |-> TRUE, min |-> Num(1), max |-> Num(10000),
             invalid |-> "INVALID_FRAME_COUNT", low |-> "FRAME_COUNT_TOO_LOW",
             high |-> "FRAME_COUNT_TOO_HIGH"]
      [] op = "validateIntervalBased" ->
            [integer |-> FALSE, min |-> Fin(1, 1000), max |-> Num(3600),
             invalid |-> "INVALID_INTERVAL", low |-> "INTERVAL_TOO_LOW",
             high |-> "INTERVAL_TOO_HIGH"]
      [] op = "validateFrameBased" ->
            [integer |-> TRUE, min |-> Num(1), max |-> Num(1000),
             invalid |-> "INVALID_FRAME_INTERVAL", low |-> "FRAME_INTERVAL_TOO_LOW",
             high |-> "FRAME_INTERVAL_TOO_HIGH"]
      [] op = "validateCustomFps" ->
            [integer |-> FALSE, min |-> Fin(1, 1000), max |-> Num(120),
             invalid |-> "INVALID_FPS", low |-> "FPS_TOO_LOW", high |-> "FPS_TOO_HIGH"]

\* The codes of a list of validation errors.
Codes(errors) == [i \in 1..Len(errors) |-> errors[i].code]

\* C12: each numeric strategy validator returns at most one error: the
\* invalid-value code alone for a non-finite value (or a non-integer one
\* where an integer is required), otherwise the too-low code below the
\* inclusive minimum, the too-high code above the inclusive maximum, and
\* the empty list exactly within the bounds.
C12_NumericValidatorsOneError ==
    \A op \in NumericValidators :
        Applied(op) =>
            LET value == checked.args.value
                rule == ValidatorRule(op)
            IN  /\ Len(checked.result) <= 1
                /\ Codes(checked.result) =
                      IF ~IsFinite(value) \/ (rule.integer /\ ~IsInteger(value))
                      THEN << rule.invalid >>
                      ELSE IF Lt(value, rule.min) THEN << rule.low >>
                      ELSE IF Gt(value, rule.max) THEN << rule.high >>
                      ELSE << >>

\* C12 witness: validateCustomFps has accepted its inclusive maximum.
C12_Witness ==
    /\ Applied("validateCustomFps")
    /\ checked.args.value = Num(120)
    /\ checked.result = << >>

\* C13: calculateExtractionFps never returns a non-positive value: for
\* every strategy and metadata it either fails with a precondition
\* violation or returns an fps greater than 0.
C13_ExtractionFpsPositive ==
    Applied("calculateExtractionFps") =>
        (checked.result.ok => Gt(checked.result.v, Num(0)))

\* The number x lies within the inclusive bounds lo..hi.
Within(x, lo, hi) == Le(Num(lo), x) /\ Le(x, Num(hi))

\* C14: for fixed positive width and height, estimateFrameStorageSize is
\* monotonically non-increasing in quality over 1..31: the estimate of a
\* quality is at least the estimate of every greater quality.
C14_StorageNonIncreasingInQuality ==
    ( /\ Applied("estimateFrameStorageSize")
      /\ Gt(checked.args.width, Num(0)) /\ Gt(checked.args.height, Num(0))
      /\ Within(checked.args.quality, 1, 31) )
        => /\ checked.result.ok
           /\ \A q2 \in QualitiesInRange :
                 Lt(checked.args.quality, q2) =>
                    LET other == estimateFrameStorageSize(
                                     checked.args.width, checked.args.height, q2)
                    IN  other.ok /\ Le(other.v, checked.result.v)

\* C14 witness: the estimate of a quality is strictly greater than the
\* estimate of a greater quality.
C14_Witness ==
    /\ Applied("estimateFrameStorageSize")
    /\ checked.args.quality = Num(2)
    /\ checked.result.ok
    /\ Gt(checked.result.v,
          estimateFrameStorageSize(checked.args.width, checked.args.height,
                                   Num(10)).v)

\* C15: estimateFrameStorageSize fails with a precondition violation for
\* every quality that is not within 1..31 and for every width or height
\* that is 0 or less; it returns no estimate for such a quality.
C15_StorageRejectsOutOfRange ==
    ( /\ Applied("estimateFrameStorageSize")
      /\ \/ ~Within(checked.args.quality, 1, 31)
         \/ Le(checked.args.width, Num(0))
         \/ Le(checked.args.height, Num(0)) )
        => ~checked.result.ok

C18_UniformPlanHasRequestedCount ==
    ( /\ Applied("createPlan")
      /\ checked.args.request.strategy.type = "uniform"
      /\ IsInteger(checked.args.request.strategy.frameCount)
      /\ Within(checked.args.request.strategy.frameCount, 1, 10000)
      /\ IsFinite(checked.args.metadata.duration)
      /\ Gt(checked.args.metadata.duration, Num(0)) )
        => /\ checked.result.ok
           /\ checked.result.v.estimatedFrameCount
                 = checked.args.request.strategy.frameCount

\* C18 witness: a plan for 9999 uniform frames of a video a third of a
\* second long has been built.
C18_Witness ==
    /\ Applied("createPlan")
    /\ checked.args.request.strategy = [type |-> "uniform", frameCount |-> Num(9999)]
    /\ checked.args.metadata.duration = Fin(1, 3)
    /\ checked.result.ok
    /\ checked.result.v.extractionFps = Num(29997)

\* C19: validateStorageEstimate returns a single STORAGE_LIMIT_EXCEEDED
\* error exactly when the estimate is finite and strictly greater than
\* 5000; for 5000, for 0 and for a non-finite estimate it returns no error.
C19_StorageQuotaBoundary ==
    Applied("validateStorageEstimate") =>
        LET estimate == checked.args.estimatedStorageMB
        IN  /\ Codes(checked.result) =
                  IF IsFinite(estimate) /\ Gt(estimate, Num(5000))
                  THEN << "STORAGE_LIMIT_EXCEEDED" >>
                  ELSE << >>
            /\ \A i \in 1..Len(checked.result) :
                  checked.result[i].field = "estimatedStorageMB"

\* C19 witness: an estimate of exactly 5000 has been accepted.
C19_Witness ==
    /\ Applied("validateStorageEstimate")
    /\ checked.args.estimatedStorageMB = Num(5000)
    /\ checked.result = << >>

\* The codes of the findings validateVideoFile has for a file.
Findings(file) ==
    LET validation == validateVideoFile(file)
    IN  IF validation.valid THEN << >> ELSE Codes(validation.errors)

ImportSettled == importCall.pc \in { "resolved", "rejected" }

\* C20: a picked file whose only validation finding is the large-file
\* warning is accepted: the import resolves with that file, and such a file
\* is strictly larger than 500 MB; a picked file of exactly 500 MB has no
\* large-file warning among its findings.
C20_LargeFileWarningAccepted ==
    (ImportSettled /\ importCall.video # None) =>
        /\ Findings(importCall.video) = << "LARGE_FILE_WARNING" >> =>
              /\ importCall.pc = "resolved"
              /\ importCall.result = Resolved(importCall.video)
              /\ Gt(importCall.video.fileSize, Num(500 * 1024 * 1024))
        /\ importCall.video.fileSize = Num(500 * 1024 * 1024) =>
              \A i \in 1..Len(Findings(importCall.video)) :
                  Findings(importCall.video)[i] # "LARGE_FILE_WARNING"

\* C20 witness: an import has resolved with a file of more than 500 MB whose
\* only finding is the large-file warning.
C20_Witness ==
    /\ importCall.pc = "resolved"
    /\ importCall.video # None
    /\ importCall.video.fileSize = Num(500 * 1024 * 1024 + 1)
    /\ Findings(importCall.video) = << "LARGE_FILE_WARNING" >>

\* The steps of an import up to and including its n-th.
StepsTaken(all, n) == SubSeq(all, 1, n)

\* The two orders in which a whole import invokes its steps.
ImportOrders ==
    { << "check", "pick", "validate" >>,
      << "check", "request", "pick", "validate" >> }

\* C21: an import that has begun has taken its steps in the order permission
\* check, optional permission request, picker, validation, each at most
\* once; the picker has been invoked only if the last permission status is
\* GRANTED; and a step in which the permission is requested is the settling
\* of a check that returned DENIED.
C21_ImportStepOrder ==
    /\ [](importCall.pc # "idle" =>
            /\ Len(importCall.steps) > 0
            /\ \E order \in ImportOrders :
                 /\ Len(importCall.steps) <= Len(order)
                 /\ importCall.steps = StepsTaken(order, Len(importCall.steps))
            /\ (\E i \in 1..Len(importCall.steps) : importCall.steps[i] = "pick")
                  => importCall.status = "granted")
    /\ [][ Len(importCall'.steps) > Len(importCall.steps)
           /\ importCall'.steps[Len(importCall'.steps)] = "request"
              => /\ importCall.pc = "checking"
                 /\ importCall.steps = << "check" >>
                 /\ importCall'.status = "denied" ]_vars

\* C21 witness: an import whose check returned DENIED has requested the
\* permission, picked and validated, and has resolved.
C21_Witness ==
    /\ importCall.pc = "resolved"
    /\ importCall.steps = << "check", "request", "pick", "validate" >>
    /\ importCall.status = "granted"

\* The code with which an import fails, given the last permission status,
\* what the picker settled with and the picked file's findings; "none" if
\* no stage fails.
FirstFailure(status, picked) ==
    IF status = "denied" THEN "PERMISSION_DENIED"
    ELSE IF status = "blocked" THEN "PERMISSION_BLOCKED"
    ELSE IF status = "unavailable" THEN "PERMISSION_UNAVAILABLE"
    ELSE IF picked = Resolved(None) THEN "USER_CANCELLED"
    ELSE IF ~picked.ok THEN "PICKER_ERROR"
    ELSE IF \E i \in 1..Len(Findings(picked.v)) :
                Findings(picked.v)[i] # "LARGE_FILE_WARNING"
    THEN "INVALID_VIDEO"
    ELSE "none"

\* C22: a settled import has failed exactly when one of its stages failed,
\* and then with a VideoImportError whose code is that of the first failing
\* stage: the last permission status DENIED, BLOCKED or UNAVAILABLE, then the
\* picker returning null (USER_CANCELLED) or throwing (PICKER_ERROR), then a
\* blocking validation finding (INVALID_VIDEO).
C22_ImportFailureCode ==
    ImportSettled =>
        \E code \in { FirstFailure(importCall.status, importCall.picked) } :
            IF code = "none"
            THEN importCall.pc = "resolved"
            ELSE /\ importCall.pc = "rejected"
                 /\ ~importCall.result.ok
                 /\ importCall.result.error.name = "VideoImportError"
                 /\ importCall.result.error.code = code

\* C22 witness: an import with the permission granted whose picker returned
\* null has failed with USER_CANCELLED.
C22_Witness ==
    /\ importCall.pc = "rejected"
    /\ importCall.status = "granted"
    /\ importCall.picked = Resolved(None)
    /\ importCall.result.error.code = "USER_CANCELLED"

\* C23: within one extractFrames call adapter.getVideoMetadata is invoked
\* at most once, and exactly once when the request passed validation;
\* adapter.extractFrames is invoked at most once and only in the step in
\* which getVideoMetadata settles successfully, so that whenever
\* extractFrames has been invoked the metadata is there and getVideoMetadata
\* is no longer in flight.
C23_MetadataBeforeExtraction ==
    /\ [](\A c \in Calls :
            calls[c].method = "extractFrames" =>
                /\ calls[c].metadataCalls <= 1
                /\ calls[c].extractCalls <= 1
                /\ calls[c].metadataCalls = 0
                      => ~validateRequest(calls[c].request).valid
                /\ calls[c].pc = "metadata" => calls[c].extractCalls = 0
                /\ calls[c].extractCalls = 1 =>
                      /\ calls[c].metadataCalls = 1
                      /\ calls[c].metadata # None
                      /\ calls[c].pc # "metadata")
    /\ [][ \A c \in Calls :
             calls'[c].extractCalls > calls[c].extractCalls =>
                 /\ calls[c].pc = "metadata"
                 /\ calls[c].method = "extractFrames"
                 /\ calls[c].metadata = None
                 /\ calls'[c].metadata # None
                 /\ calls'[c].pc = "extracting" ]_vars

\* C23 witness: an extractFrames call has resolved after one
\* getVideoMetadata and one adapter.extractFrames.
C23_Witness ==
    \E c \in Calls :
        /\ calls[c].method = "extractFrames"
        /\ calls[c].pc = "resolved"
        /\ calls[c].metadataCalls = 1
        /\ calls[c].extractCalls = 1

\* C24: at no time do two calls of one service have an adapter.extractFrames
\* operation in flight.
C24_AtMostOneExtractionInFlight ==
    \A c, d \in Calls :
        (calls[c].pc = "extracting" /\ calls[d].pc = "extracting") => c = d

\* metadata describes a video with a finite duration, width, height and
\* frame rate, each greater than 0.
PositiveMetadata(metadata) ==
    /\ IsFinite(metadata.duration) /\ Gt(metadata.duration, Num(0))
    /\ IsFinite(metadata.width) /\ Gt(metadata.width, Num(0))
    /\ IsFinite(metadata.height) /\ Gt(metadata.height, Num(0))
    /\ IsFinite(metadata.frameRate) /\ Gt(metadata.frameRate, Num(0))

\* C25: for a request validateRequest accepts and a metadata whose duration,
\* width, height and frame rate are greater than 0, createPlan returns a
\* plan and throws nothing; the plan's extractionFps is greater than 0, its
\* estimatedFrameCount is at least 0, and its quality, the request's or 2 if
\* the request has none, lies within 1..31.
C25_ValidRequestPlansWithoutViolation ==
    ( /\ Applied("createPlan")
      /\ validateRequest(checked.args.request).valid
      /\ PositiveMetadata(checked.args.metadata) ) =>
        /\ checked.result.ok
        /\ IsFinite(checked.result.v.extractionFps)
        /\ Gt(checked.result.v.extractionFps, Num(0))
        /\ IsFinite(checked.result.v.estimatedFrameCount)
        /\ ~Lt(checked.result.v.estimatedFrameCount, Num(0))
        /\ checked.result.v.quality =
              IF checked.args.request.quality = Undefined
              THEN Num(2) ELSE checked.args.request.quality
        /\ Within(checked.result.v.quality, 1, 31)

\* C25 witness: a plan has been built for an accepted request without a
\* quality whose estimated frame count is 0.
C25_Witness ==
    /\ Applied("createPlan")
    /\ validateRequest(checked.args.request).valid
    /\ PositiveMetadata(checked.args.metadata)
    /\ checked.args.request.quality = Undefined
    /\ checked.result.ok
    /\ checked.result.v.estimatedFrameCount = Num(0)

\* C26: a plan createPlan returns echoes the request's videoPath,
\* outputDirectory and strategy; its quality is the request's, or 2 if the
\* request has none; its estimatedFrameCount is round(extractionFps x
\* duration); its estimatedStorageMB is estimateTotalStorageSize of that
\* frame count, the metadata's width and height and that quality; its
\* estimatedDurationMs is 100 x that frame count; and both estimates are 0
\* when the frame count is 0.
C26_PlanComposition ==
    (Applied("createPlan") /\ checked.result.ok) =>
        \E plan \in { checked.result.v } :
        \E request \in { checked.args.request } :
        \E metadata \in { checked.args.metadata } :
            /\ plan.videoPath = request.videoPath
            /\ plan.outputDirectory = request.outputDirectory
            /\ plan.strategy = request.strategy
            /\ plan.quality = IF request.quality = Undefined THEN Num(2)
                              ELSE request.quality
            /\ plan.extractionFps =
                  calculateExtractionFps(request.strategy, metadata).v
            /\ plan.estimatedFrameCount =
                  Round(Mul(plan.extractionFps, metadata.duration))
            /\ plan.estimatedStorageMB =
                  estimateTotalStorageSize(plan.estimatedFrameCount, metadata.width,
                                           metadata.height, plan.quality).v
            /\ plan.estimatedDurationMs = Mul(Num(100), plan.estimatedFrameCount)
            /\ plan.estimatedFrameCount = Num(0) =>
                  /\ plan.estimatedStorageMB = Num(0)
                  /\ plan.estimatedDurationMs = Num(0)

\* C26 witness: a plan of 100 frames has been built for a request without a
\* quality: its quality is 2 and its estimated duration 10000 ms.
C26_Witness ==
    /\ Applied("createPlan")
    /\ checked.result.ok
    /\ checked.args.request.quality = Undefined
    /\ checked.result.v.quality = Num(2)
    /\ checked.result.v.estimatedFrameCount = Num(100)
    /\ checked.result.v.estimatedDurationMs = Num(10000)
    /\ Gt(checked.result.v.estimatedStorageMB, Num(0))

\* << code >> if condition holds, the empty sequence otherwise.
CodeIf(condition, code) == IF condition THEN << code >> ELSE << >>

\* A string field is absent, empty or made of white space only.
Blank(value) == value.t # "string" \/ \A i \in 1..Len(value.chars) :
                                          value.chars[i] \in WhiteSpace

\* C27: for a file whose uri or fileName is missing or whitespace-only,
\* validateVideoFile returns the missing-field errors (MISSING_URI, then
\* MISSING_FILENAME) and nothing else; for any other file it returns, each
\* independently of the others, UNSUPPORTED_FORMAT if the lower-cased file
\* name ends with no supported extension, INVALID_MIME_TYPE if a type is
\* present and not supported, and LARGE_FILE_WARNING if the file is larger
\* than 500 MB.
C27_VideoFileFindings ==
    Applied("validateVideoFile") =>
        \E file \in { checked.args.file } :
            (IF checked.result.valid THEN << >> ELSE Codes(checked.result.errors)) =
                IF Blank(file.uri) \/ Blank(file.fileName)
                THEN CodeIf(Blank(file.uri), "MISSING_URI")
                     \o CodeIf(Blank(file.fileName), "MISSING_FILENAME")
                ELSE CodeIf(\A k \in 1..Len(SUPPORTED_VIDEO_EXTENSIONS) :
                                ~EndsWith(ToLowerCase(file.fileName.chars),
                                          SUPPORTED_VIDEO_EXTENSIONS[k]),
                            "UNSUPPORTED_FORMAT")
                     \o CodeIf(/\ file.type.t = "string"
                               /\ file.type.chars # << >>
                               /\ \A k \in 1..Len(SUPPORTED_MIME_TYPES) :
                                      SUPPORTED_MIME_TYPES[k] # file.type.chars,
                               "INVALID_MIME_TYPE")
                     \o CodeIf(Gt(file.fileSize, Num(500 * 1024 * 1024)),
                               "LARGE_FILE_WARNING")

\* C27 witness: a file with an unsupported extension, an unsupported MIME
\* type and more than 500 MB has got all three findings.
C27_Witness ==
    /\ Applied("validateVideoFile")
    /\ ~checked.result.valid
    /\ Codes(checked.result.errors) =
          << "UNSUPPORTED_FORMAT", "INVALID_MIME_TYPE", "LARGE_FILE_WARNING" >>

\* The codes of the mapping table of mapNativeCodeToDomainCode.
RecognisedNativeCodes ==
    { "INVALID_VIDEO_PATH", "INVALID_OUTPUT_DIR", "FFMPEG_FAILED", "VIDEO_NOT_FOUND",
      "UNSUPPORTED_FORMAT", "INSUFFICIENT_STORAGE", "CANCELLED" }

\* C28: mapNativeErrorToVideoProcessingError returns a VideoProcessingError
\* as it is, and applied to its own result it returns that result; an error
\* with a recognised native code gets the domain code of the same name;
\* every other value gets the code UNKNOWN; and whenever the value has a
\* message, the result carries that message.
C28_NativeErrorMapping ==
    Applied("mapNativeErrorToVideoProcessingError") =>
        \E error \in { checked.args.error } :
        \E once \in { checked.result.once } :
            /\ once.name = "VideoProcessingError"
            /\ checked.result.twice = once
            /\ IF "name" \in DOMAIN error /\ error.name = "VideoProcessingError"
               THEN once = error
               ELSE /\ once.code =
                          IF "code" \in DOMAIN error /\ "message" \in DOMAIN error
                             /\ error.code \in RecognisedNativeCodes
                          THEN error.code
                          ELSE "UNKNOWN"
                    /\ "message" \in DOMAIN error => once.message = error.message

\* C29: the file an import has resolved with has a uri and a fileName that
\* are strings and not empty after trimming, a file name whose lower-cased
\* form ends with a supported extension, and a MIME type that is absent,
\* empty or one of the supported types.
C29_ResolvedFileHasNoBlockingError ==
    importCall.pc = "resolved" =>
        /\ importCall.result.ok
        /\ \E file \in { importCall.result.v } :
             /\ file = importCall.picked.v
             /\ ~Blank(file.uri)
             /\ ~Blank(file.fileName)
             /\ \E k \in 1..Len(SUPPORTED_VIDEO_EXTENSIONS) :
                    EndsWith(ToLowerCase(file.fileName.chars),
                             SUPPORTED_VIDEO_EXTENSIONS[k])
             /\ \/ file.type.t # "string"
                \/ file.type.chars = << >>
                \/ \E k \in 1..Len(SUPPORTED_MIME_TYPES) :
                       SUPPORTED_MIME_TYPES[k] = file.type.chars

\* C29 witness: an import from the camera has resolved with a file that has
\* a supported MIME type and an upper-case extension.
C29_Witness ==
    /\ importCall.pc = "resolved"
    /\ importCall.method = "importVideoFromCamera"
    /\ importCall.result.v.type.t = "string"
    /\ importCall.result.v.type.chars # << >>
    /\ importCall.result.v.fileName.chars # ToLowerCase(importCall.result.v.fileName.chars)

\* C30: a planExtraction call whose plan has a finite estimatedStorageMB
\* above 5000 resolves with that plan and never invokes adapter.extractFrames;
\* an extractFrames call of the same service with the same request that got
\* the same metadata has failed with INSUFFICIENT_STORAGE.
C30_PlanExtractionIgnoresQuota ==
    \A c \in Calls :
        (calls[c].method = "planExtraction" /\ PlanOverQuota(c)) =>
            /\ validateRequest(calls[c].request).valid
            /\ calls[c].pc = "resolved"
            /\ calls[c].value = calls[c].plan
            /\ calls[c].value = createPlan(calls[c].request, calls[c].metadata).v
            /\ calls[c].extractCalls = 0
            /\ \A d \in Calls :
                 ( /\ calls[d].method = "extractFrames"
                   /\ calls[d].request = calls[c].request
                   /\ calls[d].metadata = calls[c].metadata )
                     => /\ RejectedWith(d, "INSUFFICIENT_STORAGE")
                        /\ calls[d].extractCalls = 0

\* C30 witness: planExtraction has resolved with a plan over the quota while
\* extractFrames with the same request and metadata has failed with
\* INSUFFICIENT_STORAGE.
C30_Witness ==
    \E c, d \in Calls :
        /\ calls[c].method = "planExtraction"
        /\ PlanOverQuota(c)
        /\ calls[c].pc = "resolved"
        /\ calls[d].method = "extractFrames"
        /\ calls[d].request = calls[c].request
        /\ calls[d].metadata = calls[c].metadata
        /\ RejectedWith(d, "INSUFFICIENT_STORAGE")

====
